---- MODULE Spec2Model ----
(***************************************************************************)
(* Verification model of the AumOS governance SDKs (Python packages):      *)
(*   - audit_trail      : HashChain, AuditLogger, storage backends         *)
(*   - aumos_audit      : tamper_verify.verify_chain                       *)
(*   - aumos_governance : GovernanceEngine and its trust / budget /        *)
(*                        consent / audit collaborators                     *)
(*                        and HashChainedAuditLog                           *)
(*   - trust_ladder     : DecayEngine, AssignmentStore, TrustLadder        *)
(*   - budget_enforcer  : BudgetEnforcer and its spending envelopes        *)
(* Each package is a group of variables with its own specification; the    *)
(* groups not under study in a specification stay at their initial value.  *)
(***************************************************************************)
EXTENDS Integers, Sequences, FiniteSets, TLC

VARIABLES
    \* ---- audit_trail: AuditLogger / HashChain / storage ----
    last_record_hash,   \* HashChain._last_record_hash
    records,            \* the storage backend's contents, in stored order
    next_uuid,          \* source of fresh record ids (uuid4)
    now_ts,             \* wall clock read by _current_timestamp
    log_calls,          \* number of AuditLogger.log calls made so far
    last_log,           \* how the last log call ended: "none", "ok", "raised"
    tip_before,         \* HashChain.last_hash() when the last log call began
    stored_before,      \* the stored corpus when the last log call began
    inflight,           \* per coroutine: the record awaiting storage.append
    corpus,             \* a copy of the current storage.all() handed to a verifier
                        \* (dropped at the next log call or clock reading)
    tamper,             \* the tampering applied to corpus: <<>> or <<[index, field]>>
    \* ---- aumos_governance: GovernanceEngine and its collaborators ----
    cfg,                \* GovernanceConfig (trust, budget, consent, audit)
    day,                \* the clock (datetime.now / date.today), in whole days
    trust_store,        \* TrustManager._store: (agent_id, scope) -> _TrustEntry
    envelopes,          \* CategoryTracker._envelopes: category -> BudgetEnvelope
    consent_records,    \* ConsentStore._records: (agent, data_type, purpose) -> record
    audit_records,      \* AuditLogger._records (collections.deque)
    gov_next_id,        \* source of fresh audit record ids (uuid4)
    gov_calls,          \* number of calls made on the engine so far
    returned,           \* what the last call returned, when it was an evaluation
                        \* and the clock has not moved since
    performed,          \* the checks that evaluation called, in call order
    \* ---- trust_ladder: TrustLadder / AssignmentStore / DecayEngine ----
    ladder_cfg,         \* the resolved TrustLadderConfig
    clock_ms,           \* the wall clock read by _now_ms
    assignments,        \* AssignmentStore._assignments: scope key -> TrustAssignment
    history,            \* AssignmentStore._history: scope key -> change records
    ladder_calls,       \* number of calls made on the ladder so far
    ladder_returned,    \* the last call on the ladder and what it returned
    \* ---- budget_enforcer: BudgetEnforcer ----
    enf_envelopes,      \* BudgetEnforcer._envelopes: envelope id -> SpendingEnvelope
    enf_by_category,    \* BudgetEnforcer._envelopes_by_category: category -> id
    enf_transactions,   \* BudgetEnforcer._transactions, in recorded order
    enf_commits,        \* BudgetEnforcer._commits: commit id -> (category, amount)
    enf_now,            \* the clock read by datetime.now, in seconds
    enf_next_id,        \* source of fresh ids (uuid4)
    enf_calls,          \* number of calls made on the enforcer so far
    enf_returned,       \* the last call on the enforcer and how it ended
    enf_admitted,       \* every commit admitted so far: commit id ->
                        \* (category, amount, time, envelope id)
    enf_released,       \* the ids of the admitted commits released so far
    enf_settled,        \* the categories whose envelope was replaced or reset
    \* ---- aumos_governance.audit_chain: HashChainedAuditLog ----
    hcl_max_size,       \* the maxlen of the deque (max_size)
    hcl_chain,          \* HashChainedAuditLog._chain (collections.deque)
    hcl_last_hash,      \* HashChainedAuditLog._last_hash
    hcl_next_id,        \* source of fresh record ids (uuid4)
    hcl_now,            \* the clock read by datetime.now
    hcl_returned        \* the last call on the log and what it returned

auditVars == <<last_record_hash, records, next_uuid, now_ts, log_calls, last_log,
               tip_before, stored_before, inflight, corpus, tamper>>

govVars == <<cfg, day, trust_store, envelopes, consent_records, audit_records,
             gov_next_id, gov_calls, returned, performed>>

ladderVars == <<ladder_cfg, clock_ms, assignments, history, ladder_calls,
                ladder_returned>>

enforcerVars == <<enf_envelopes, enf_by_category, enf_transactions, enf_commits,
                  enf_now, enf_next_id, enf_calls, enf_returned, enf_admitted,
                  enf_released, enf_settled>>

chainedVars == <<hcl_max_size, hcl_chain, hcl_last_hash, hcl_next_id, hcl_now,
                 hcl_returned>>

\* the variables the audit-trail actions leave alone
nonAuditVars == <<govVars, ladderVars, enforcerVars, chainedVars>>

\* the variables the governance-engine actions leave alone
nonGovVars == <<auditVars, ladderVars, enforcerVars, chainedVars>>

\* the variables the trust-ladder actions leave alone
nonLadderVars == <<auditVars, govVars, enforcerVars, chainedVars>>

\* the variables the budget-enforcer actions leave alone
nonEnforcerVars == <<auditVars, govVars, ladderVars, chainedVars>>

\* the variables the chained-log actions leave alone
nonChainedVars == <<auditVars, govVars, ladderVars, enforcerVars>>

vars == <<auditVars, govVars, ladderVars, enforcerVars, chainedVars>>

-----------------------------------------------------------------------------
(* Optional values: Python None and a present value.                        *)

None == <<>>

Some(v) == <<v>>

-----------------------------------------------------------------------------
(* Bounds of the model.                                                     *)

\* log calls per behaviour
MaxLogs == 3

\* largest wall-clock reading
MaxClock == 1

\* concurrent AuditLogger.log coroutines
NumCoroutines == 2

-----------------------------------------------------------------------------
(* audit_trail.chain / audit_trail.record                                   *)

\* "0" * 64, held in a one-element tuple so that it is comparable with digests
GENESIS_HASH == <<"0000000000000000000000000000000000000000000000000000000000000000">>

\* fields of AuditRecord that build_pending_record always writes
RequiredKeys == {"id", "timestamp", "agent_id", "action", "permitted", "previous_hash"}

\* fields of AuditRecord that are omitted when None
OptionalKeys == {"trust_level", "required_level", "budget_used", "budget_remaining",
                 "reason", "metadata"}

\* every field of AuditRecord
RecordKeys == RequiredKeys \cup OptionalKeys \cup {"record_hash"}

\* the keys of a pending dict in the order json.dumps(sort_keys=True) emits them
SortedKeys == <<"action", "agent_id", "budget_remaining", "budget_used", "id",
                "metadata", "permitted", "previous_hash", "reason",
                "required_level", "timestamp", "trust_level">>

\* build_pending_record: a dict holding the required fields and the optional
\* fields of the decision that are not None
build_pending_record(decision, previous_hash, record_id, timestamp) ==
    [k \in RequiredKeys \cup {o \in OptionalKeys : decision[o] # None} |->
        CASE k = "id" -> record_id
          [] k = "timestamp" -> timestamp
          [] k = "previous_hash" -> previous_hash
          [] k \in OptionalKeys -> decision[k][1]
          [] OTHER -> decision[k]]

\* _canonicalise: the key/value pairs of the dict in sorted key order
canonicalise(pending) ==
    LET present == SelectSeq(SortedKeys, LAMBDA k : k \in DOMAIN pending)
    IN  [i \in 1..Len(present) |-> <<present[i], pending[present[i]]>>]

\* _compute_hash: SHA-256 over canonical JSON, "\n" and the previous hash; the
\* digest is modelled collision-free, as the pair of what was hashed
compute_hash(pending, previous_hash) == <<canonicalise(pending), previous_hash>>

\* finalise_record: AuditRecord.model_validate({**pending, "record_hash": h})
finalise_record(pending, record_hash) ==
    [k \in RecordKeys |->
        IF k = "record_hash" THEN record_hash
        ELSE IF k \in OptionalKeys
             THEN (IF k \in DOMAIN pending THEN Some(pending[k]) ELSE None)
             ELSE pending[k]]

\* record.model_dump(mode="json", exclude={"record_hash"}) with None values dropped
dump_pending(record) ==
    [k \in {f \in RecordKeys \ {"record_hash"} :
                ~(f \in OptionalKeys /\ record[f] = None)} |->
        IF k \in OptionalKeys THEN record[k][1] ELSE record[k]]

\* a HashChain.append that returns the record but leaves the tip where it was
chain_append_stale_tip(pending, tip) ==
    [tip |-> tip, record |-> finalise_record(pending, compute_hash(pending, tip))]

\* HashChain.append: the digest over the current tip becomes the new tip and the
\* record_hash of the returned record
chain_append(pending, tip) ==
    [tip |-> compute_hash(pending, tip),
     record |-> finalise_record(pending, compute_hash(pending, tip))]

\* a logger that links every record to the genesis hash
log_previous_hash_genesis(tip) == GENESIS_HASH

\* the previous hash AuditLogger.log hands to build_pending_record
log_previous_hash(tip) == tip

Success(n) == [valid |-> TRUE, record_count |-> n]

Failure(n, at) == [valid |-> FALSE, record_count |-> n, broken_at |-> at]

\* the loop of HashChain.verify from (1-based) position i; broken_at is 0-based
RECURSIVE verify_from(_, _, _)
verify_from(rs, i, expected_previous_hash) ==
    IF i > Len(rs) THEN Success(Len(rs))
    ELSE IF rs[i]["previous_hash"] # expected_previous_hash
         THEN Failure(Len(rs), i - 1)
    ELSE IF rs[i]["record_hash"] # compute_hash(dump_pending(rs[i]), expected_previous_hash)
         THEN Failure(Len(rs), i - 1)
    ELSE verify_from(rs, i + 1, rs[i]["record_hash"])

\* a verifier that checks the previous_hash links and never recomputes a digest
RECURSIVE verify_links_only_from(_, _, _)
verify_links_only_from(rs, i, expected_previous_hash) ==
    IF i > Len(rs) THEN Success(Len(rs))
    ELSE IF rs[i]["previous_hash"] # expected_previous_hash
         THEN Failure(Len(rs), i - 1)
    ELSE verify_links_only_from(rs, i + 1, rs[i]["record_hash"])

verify_links_only(rs) == verify_links_only_from(rs, 1, GENESIS_HASH)

\* HashChain.verify
verify(rs) == verify_from(rs, 1, GENESIS_HASH)

\* the loop of aumos_audit.tamper_verify.verify_chain
RECURSIVE verify_chain_from(_, _, _)
verify_chain_from(rs, i, expected_previous_hash) ==
    IF i > Len(rs)
    THEN [tamper_detected |-> FALSE, total_records |-> Len(rs),
          total_verified |-> Len(rs), first_broken_link |-> None]
    ELSE IF \/ rs[i]["previous_hash"] # expected_previous_hash
            \/ rs[i]["record_hash"] #
                  compute_hash(dump_pending(rs[i]), expected_previous_hash)
         THEN [tamper_detected |-> TRUE, total_records |-> Len(rs),
               total_verified |-> i - 1, first_broken_link |-> Some(i - 1)]
    ELSE verify_chain_from(rs, i + 1, rs[i]["record_hash"])

\* aumos_audit.tamper_verify.verify_chain
verify_chain(rs) ==
    IF rs = <<>>
    THEN [tamper_detected |-> FALSE, total_records |-> 0, total_verified |-> 0,
          first_broken_link |-> None]
    ELSE verify_chain_from(rs, 1, GENESIS_HASH)

-----------------------------------------------------------------------------
(* audit_trail.logger.AuditLogger over a storage backend                    *)

\* the GovernanceDecisionInput values the log calls are drawn from
Decisions ==
    LET blank == [k \in OptionalKeys |-> None]
    IN  { [agent_id |-> "a1", action |-> "send_email", permitted |-> TRUE] @@ blank,
          [agent_id |-> "a2", action |-> "read", permitted |-> FALSE] @@
              [blank EXCEPT !["reason"] = Some("denied"), !["trust_level"] = Some(3)] }

Coroutines == 1..NumCoroutines

\* the state of a freshly constructed AuditLogger (HashChain(), empty storage)
AuditInit ==
    /\ last_record_hash = GENESIS_HASH
    /\ records = <<>>
    /\ next_uuid = 1
    /\ now_ts = 0
    /\ log_calls = 0
    /\ last_log = "none"
    /\ tip_before = GENESIS_HASH
    /\ stored_before = <<>>
    /\ inflight = [p \in Coroutines |-> None]
    /\ corpus = <<>>
    /\ tamper = None

\* what AuditLogger.log computes before it awaits the storage backend
log_linked(decision) ==
    chain_append(
        build_pending_record(decision, log_previous_hash(last_record_hash),
                             next_uuid, now_ts),
        last_record_hash)

\* AuditLogger.log with a storage append that returns (MemoryStorage.append
\* never suspends, so the call runs to completion)
Log(decision) ==
    /\ log_calls < MaxLogs
    /\ last_record_hash' = log_linked(decision).tip
    /\ records' = Append(records, log_linked(decision).record)
    /\ next_uuid' = next_uuid + 1
    /\ log_calls' = log_calls + 1
    /\ last_log' = "ok"
    /\ tip_before' = last_record_hash
    /\ stored_before' = records
    /\ corpus' = <<>>
    /\ tamper' = None
    /\ UNCHANGED <<now_ts, inflight>>
    /\ UNCHANGED nonAuditVars

\* AuditLogger.log with a storage append that raises: the exception leaves
\* log after HashChain.append has run
LogStorageRaises(decision) ==
    /\ log_calls < MaxLogs
    /\ last_record_hash' = log_linked(decision).tip
    /\ next_uuid' = next_uuid + 1
    /\ log_calls' = log_calls + 1
    /\ last_log' = "raised"
    /\ tip_before' = last_record_hash
    /\ stored_before' = records
    /\ UNCHANGED <<records, now_ts, inflight, corpus, tamper>>
    /\ UNCHANGED nonAuditVars

\* AuditLogger.log up to its await: pending record built and linked, the
\* coroutine suspended inside FileStorage.append (aiofiles.open)
LogBegin(p, decision) ==
    /\ log_calls < MaxLogs
    /\ inflight[p] = None
    /\ last_record_hash' = log_linked(decision).tip
    /\ inflight' = [inflight EXCEPT ![p] = Some(log_linked(decision).record)]
    /\ next_uuid' = next_uuid + 1
    /\ log_calls' = log_calls + 1
    /\ tip_before' = last_record_hash
    /\ stored_before' = records
    /\ UNCHANGED <<records, now_ts, last_log, corpus, tamper>>
    /\ UNCHANGED nonAuditVars

\* FileStorage.append completes for coroutine p: its line reaches the file
StorageAppend(p) ==
    /\ inflight[p] # None
    /\ records' = Append(records, inflight[p][1])
    /\ inflight' = [inflight EXCEPT ![p] = None]
    /\ last_log' = "ok"
    /\ UNCHANGED <<last_record_hash, next_uuid, now_ts, log_calls, tip_before,
                   stored_before, corpus, tamper>>
    /\ UNCHANGED nonAuditVars

\* the wall clock advances
Tick ==
    /\ now_ts < MaxClock
    /\ now_ts' = now_ts + 1
    /\ corpus' = <<>>
    /\ tamper' = None
    /\ UNCHANGED <<last_record_hash, records, next_uuid, log_calls, last_log,
                   tip_before, stored_before, inflight>>
    /\ UNCHANGED nonAuditVars

\* AuditFilter: every field optional (None), times as clock readings
AuditFilter(agent_id, permitted, start_time, end_time, offset, limit) ==
    [agent_id |-> agent_id, action |-> None, permitted |-> permitted,
     start_time |-> start_time, end_time |-> end_time,
     offset |-> offset, limit |-> limit]

\* the filters the queries are drawn from
AuditFilters ==
    { AuditFilter(None, None, None, None, None, None),
      AuditFilter(Some("a1"), None, None, None, None, None),
      AuditFilter(None, Some(FALSE), None, None, None, None),
      AuditFilter(None, None, Some(1), None, None, None),
      AuditFilter(None, None, None, Some(0), None, None),
      AuditFilter(None, None, None, None, Some(1), None),
      AuditFilter(None, None, None, None, None, Some(2)) }

\* _apply_filter of storage/file.py, and the same steps inlined in
\* MemoryStorage.query: each set field narrows the list, then offset and limit
apply_filter(rs, audit_filter) ==
    LET by_agent(r) == audit_filter.agent_id = None \/ r["agent_id"] = audit_filter.agent_id[1]
        by_action(r) == audit_filter.action = None \/ r["action"] = audit_filter.action[1]
        by_permitted(r) == audit_filter.permitted = None \/ r["permitted"] = audit_filter.permitted[1]
        by_start(r) == audit_filter.start_time = None \/ r["timestamp"] >= audit_filter.start_time[1]
        by_end(r) == audit_filter.end_time = None \/ r["timestamp"] <= audit_filter.end_time[1]
        narrowed == SelectSeq(SelectSeq(SelectSeq(SelectSeq(
                        SelectSeq(rs, by_agent), by_action), by_permitted),
                        by_start), by_end)
        offset == IF audit_filter.offset = None THEN 0 ELSE audit_filter.offset[1]
        skipped == SubSeq(narrowed, offset + 1, Len(narrowed))
    IN  IF audit_filter.limit = None THEN skipped
        ELSE SubSeq(skipped, 1, IF audit_filter.limit[1] < Len(skipped)
                                THEN audit_filter.limit[1] ELSE Len(skipped))

\* MemoryStorage.all (list(self._records)) and FileStorage.all over a file of
\* well-formed lines: the records in the order they were appended
storage_all(rs) == rs

\* AuditStorage.query of both backends
storage_query(rs, audit_filter) == apply_filter(storage_all(rs), audit_filter)

\* AuditStorage.append(record): the record, built by the caller at a time of
\* the caller's choosing, goes to the end of the list (of the file)
StorageAppendRecord(decision, timestamp) ==
    /\ Len(records) < MaxLogs
    /\ LET tip == IF records = <<>> THEN GENESIS_HASH
                  ELSE records[Len(records)]["record_hash"]
           linked == chain_append(
                         build_pending_record(decision, tip, next_uuid, timestamp), tip)
       IN  records' = Append(records, linked.record)
    /\ next_uuid' = next_uuid + 1
    /\ corpus' = <<>>
    /\ tamper' = None
    /\ UNCHANGED <<last_record_hash, now_ts, log_calls, last_log, tip_before,
                   stored_before, inflight>>
    /\ UNCHANGED nonAuditVars

\* AuditStorage.all(): the caller receives the list
StorageAll ==
    /\ corpus' = storage_all(records)
    /\ tamper' = None
    /\ UNCHANGED <<last_record_hash, records, next_uuid, now_ts, log_calls,
                   last_log, tip_before, stored_before, inflight>>
    /\ UNCHANGED nonAuditVars

\* AuditStorage.query(audit_filter): the caller receives the narrowed list
StorageQuery(audit_filter) ==
    /\ corpus' = storage_query(records, audit_filter)
    /\ tamper' = None
    /\ UNCHANGED <<last_record_hash, records, next_uuid, now_ts, log_calls,
                   last_log, tip_before, stored_before, inflight>>
    /\ UNCHANGED nonAuditVars

\* FileStorage.all over a file whose lines at the positions in malformed fail
\* json.loads or model_validate: those lines are skipped, the rest is returned
file_all(rs, malformed) ==
    LET kept == {i \in 1..Len(rs) : i \notin malformed}
        nth(k) == CHOOSE i \in kept : Cardinality({j \in kept : j < i}) = k - 1
    IN  [k \in 1..Cardinality(kept) |-> rs[nth(k)]]

\* line i of the file is damaged and FileStorage.all() is read: the caller
\* receives the corpus without that record
StorageAllDropping(i) ==
    /\ tamper = None
    /\ i \in 1..Len(records)
    /\ corpus' = file_all(records, {i})
    /\ tamper' = Some([index |-> i - 1, field |-> "line"])
    /\ UNCHANGED <<last_record_hash, records, next_uuid, now_ts, log_calls,
                   last_log, tip_before, stored_before, inflight>>
    /\ UNCHANGED nonAuditVars

\* AuditLogger(storage) constructed over the backend in use (a restart of the
\* process over the same file): the new logger holds a fresh HashChain()
Restart ==
    /\ \A p \in Coroutines : inflight[p] = None
    /\ last_record_hash' = GENESIS_HASH
    /\ last_log' = "none"
    /\ UNCHANGED <<records, next_uuid, now_ts, log_calls, tip_before,
                   stored_before, inflight, corpus, tamper>>
    /\ UNCHANGED nonAuditVars

\* a well-formed digest that no record of the chain carries
ForeignHash == <<<<>>, <<"ffffffffffffffffffffffffffffffffffffffffffffffffffffffffffffffff">>>>

\* the values a tamperer can write into a field of a stored record
TamperValues(field) ==
    CASE field = "agent_id" -> {"a1", "a2"}
      [] field = "action" -> {"send_email", "read"}
      [] field = "permitted" -> BOOLEAN
      [] field = "id" -> 1..MaxLogs
      [] field = "timestamp" -> 0..MaxClock
      [] field = "reason" -> {None, Some("denied"), Some("ok")}
      [] field \in {"trust_level", "required_level"} -> {None, Some(3), Some(4)}
      [] field \in {"budget_used", "budget_remaining"} -> {None, Some(1)}
      [] field = "metadata" -> {None, Some("m")}
      [] OTHER -> {GENESIS_HASH, ForeignHash} \cup
                  {records[j]["record_hash"] : j \in 1..Len(records)}

\* someone copies the stored corpus and changes one field of one record
Tamper(i, field, value) ==
    /\ tamper = None
    /\ i \in 1..Len(records)
    /\ value # records[i][field]
    /\ corpus' = [records EXCEPT ![i] = [@ EXCEPT ![field] = value]]
    /\ tamper' = Some([index |-> i - 1, field |-> field])
    /\ UNCHANGED <<last_record_hash, records, next_uuid, now_ts, log_calls,
                   last_log, tip_before, stored_before, inflight>>
    /\ UNCHANGED nonAuditVars

-----------------------------------------------------------------------------
(* aumos_governance: configuration and inputs                               *)

\* calls made on one engine per behaviour
MaxCalls == 3

\* largest reading of the day clock
MaxDay == 1

\* the GovernanceConfig values a behaviour starts from: the defaults (with
\* shorter decay windows), and a permissive configuration with decay enabled
DefaultConfig ==
    [default_level |-> 1, enable_decay |-> FALSE,
     decay_cliff_days |-> Some(2), decay_gradual_days |-> Some(1),
     allow_overdraft |-> FALSE, rollover_on_reset |-> FALSE,
     default_deny |-> TRUE, max_records |-> 2, include_context |-> TRUE]

Configs ==
    { DefaultConfig,
      [DefaultConfig EXCEPT !.enable_decay = TRUE, !.allow_overdraft = TRUE,
                            !.rollover_on_reset = TRUE, !.default_deny = FALSE,
                            !.max_records = 1, !.include_context = FALSE] }

Agents == {"a1"}

ScopeOpts == {None, Some("s")}

\* TrustLevel values handed to set_level
AssignableLevels == {2, 3}

L0_OBSERVER == 0

Categories == {"llm"}

BUDGET_PERIOD_VALUES == {"daily", "weekly", "monthly", "yearly", "lifetime"}

\* the periods whose reset date the day clock can express
PeriodsUsed == {"daily", "lifetime"}

DataTypes == {"user"}

PurposeOpts == {None, Some("support")}

-----------------------------------------------------------------------------
(* aumos_governance.trust                                                   *)

\* _TrustEntry.__init__: assigned_at and last_active are both "now"
TrustEntry(level, scope, assigned_by) ==
    [level |-> level, scope |-> scope, assigned_at |-> day,
     last_active |-> day, assigned_by |-> assigned_by]

\* TrustManager.set_level: an existing entry keeps its last_active
set_level(store, agent_id, level, scope) ==
    LET key == <<agent_id, scope>>
    IN  IF key \in DOMAIN store
        THEN [store EXCEPT ![key] =
                 [@ EXCEPT !.level = level, !.assigned_by = None, !.assigned_at = day]]
        ELSE [k \in DOMAIN store \cup {key} |->
                 IF k = key THEN TrustEntry(level, scope, None) ELSE store[k]]

\* TrustManager._resolve_entry: the scoped entry, else the global entry
resolve_entry(agent_id, scope) ==
    IF scope # None /\ <<agent_id, scope>> \in DOMAIN trust_store
    THEN Some(trust_store[<<agent_id, scope>>])
    ELSE IF <<agent_id, None>> \in DOMAIN trust_store
         THEN Some(trust_store[<<agent_id, None>>])
         ELSE None

\* calculate_decay(...).effective_level: the cliff takes precedence over the
\* gradual window, and either one lowers the level by one step
calculate_decay(current_level, last_active, cliff_days, gradual_days) ==
    LET days_inactive == day - last_active
        dropped == IF current_level > L0_OBSERVER THEN current_level - 1
                   ELSE current_level
    IN  IF cliff_days = None /\ gradual_days = None THEN current_level
        ELSE IF cliff_days # None /\ days_inactive >= cliff_days[1] THEN dropped
        ELSE IF gradual_days # None /\ days_inactive >= gradual_days[1] THEN dropped
        ELSE current_level

\* TrustManager.get_level
get_level(agent_id, scope) ==
    LET entry == resolve_entry(agent_id, scope)
    IN  IF entry = None THEN cfg.default_level
        ELSE IF ~cfg.enable_decay THEN entry[1].level
        ELSE calculate_decay(entry[1].level, entry[1].last_active,
                             cfg.decay_cliff_days, cfg.decay_gradual_days)

\* TrustManager.touch: last_active of the scoped entry and of the global
\* entry, where they exist, becomes now
touch(store, agent_id, scope) ==
    [k \in DOMAIN store |->
        IF k \in {<<agent_id, scope>>, <<agent_id, None>>}
        THEN [store[k] EXCEPT !.last_active = day]
        ELSE store[k]]

\* TrustManager.remove: deletes the entry under exactly (agent_id, scope)
trust_remove(store, agent_id, scope) ==
    IF <<agent_id, scope>> \in DOMAIN store
    THEN [removed |-> TRUE,
          store |-> [k \in DOMAIN store \ {<<agent_id, scope>>} |-> store[k]]]
    ELSE [removed |-> FALSE, store |-> store]

\* validate_trust: the TrustCheckResult; its reason text is determined by the
\* fields below
validate_trust(agent_id, required_level, actual_level, scope) ==
    [check |-> "trust", allowed |-> actual_level >= required_level,
     agent_id |-> agent_id, required_level |-> required_level,
     actual_level |-> actual_level, scope |-> scope]

\* TrustManager.check_level
check_level(agent_id, required_level, scope) ==
    validate_trust(agent_id, required_level, get_level(agent_id, scope), scope)

\* TrustManager.require_level: the error raised, "" when the call returns
require_level_raises(agent_id, required_level, scope) ==
    IF check_level(agent_id, required_level, scope).allowed THEN ""
    ELSE "TrustLevelError"

-----------------------------------------------------------------------------
(* aumos_governance.budget                                                  *)

\* BudgetEnvelope.__init__
BudgetEnvelope(category, limit, period) ==
    [category |-> category, limit |-> limit, period |-> period,
     effective_limit |-> limit, spent |-> 0, last_reset |-> day,
     transactions |-> <<>>]

\* BudgetEnvelope.remaining
remaining(envelope) == envelope.effective_limit - envelope.spent

\* should_reset for the periods in use: a daily budget resets once the date
\* has reached last_reset + 1 day, a lifetime budget never
should_reset(period, last_reset) ==
    IF period = "lifetime" THEN FALSE
    ELSE day >= last_reset + 1

Max(a, b) == IF a >= b THEN a ELSE b

Min(a, b) == IF a <= b THEN a ELSE b

\* a rollover that always grants twice the base limit
apply_rollover_doubling(spent, limit, rollover_on_reset) ==
    IF ~rollover_on_reset THEN limit ELSE limit * 2

\* apply_rollover
apply_rollover(spent, limit, rollover_on_reset) ==
    IF ~rollover_on_reset THEN limit
    ELSE Min(limit + Max(0, limit - spent), limit * 2)

\* CategoryTracker.reset
tracker_reset(envs, category, new_effective_limit) ==
    [envs EXCEPT ![category] =
        [@ EXCEPT !.spent = 0, !.effective_limit = new_effective_limit,
                  !.last_reset = day, !.transactions = <<>>]]

\* BudgetManager._maybe_reset
maybe_reset(envs, category) ==
    IF category \notin DOMAIN envs THEN envs
    ELSE IF should_reset(envs[category].period, envs[category].last_reset)
         THEN tracker_reset(envs, category,
                  apply_rollover(envs[category].spent, envs[category].limit,
                                 cfg.rollover_on_reset))
         ELSE envs

\* the BudgetCheckResult for an envelope; its reason text is determined by the
\* fields below
BudgetCheckResult(envelope, category, amount) ==
    [check |-> "budget", allowed |-> amount <= remaining(envelope),
     category |-> category, requested |-> amount,
     available |-> remaining(envelope), limit |-> envelope.effective_limit,
     spent |-> envelope.spent]

\* a check_budget that rolls the period over before it reads the envelope
check_budget_refreshing(category, amount) ==
    IF category \notin DOMAIN envelopes
    THEN [raised |-> TRUE, envelopes |-> envelopes]
    ELSE [raised |-> FALSE, envelopes |-> maybe_reset(envelopes, category),
          result |-> BudgetCheckResult(maybe_reset(envelopes, category)[category],
                                       category, amount)]

\* BudgetManager.check_budget: raises BudgetNotFoundError for an unknown
\* category, else reads the envelope as it stands; "envelopes" is the tracker
\* state the call leaves behind
check_budget(category, amount) ==
    IF category \notin DOMAIN envelopes
    THEN [raised |-> TRUE, envelopes |-> envelopes]
    ELSE [raised |-> FALSE, envelopes |-> envelopes,
          result |-> BudgetCheckResult(envelopes[category], category, amount)]

\* BudgetManager.record_spending: the tracker state the call leaves behind
\* (the period rollover happens before the overdraft and amount checks)
record_spending(envs, category, amount) ==
    LET fresh == maybe_reset(envs, category)
    IN  IF ~cfg.allow_overdraft
           /\ fresh[category].spent + amount > fresh[category].effective_limit
        THEN fresh
        ELSE IF amount <= 0 THEN fresh
        ELSE [fresh EXCEPT ![category] =
                 [@ EXCEPT !.spent = @ + amount,
                           !.transactions = Append(@, amount)]]

\* the error BudgetManager.record_spending raises, "" when it returns
record_spending_raises(envs, category, amount) ==
    IF category \notin DOMAIN envs THEN "BudgetNotFoundError"
    ELSE IF /\ ~cfg.allow_overdraft
            /\ maybe_reset(envs, category)[category].spent + amount
                  > maybe_reset(envs, category)[category].effective_limit
    THEN "BudgetExceededError"
    ELSE IF amount <= 0 THEN "ValueError"
    ELSE ""

-----------------------------------------------------------------------------
(* aumos_governance.consent                                                 *)

\* ConsentRecord.is_expired
is_expired(record) ==
    IF record.expires_at = None THEN FALSE ELSE day >= record.expires_at[1]

\* a lookup without the blanket record
consent_find_exact_only(agent_id, data_type, purpose) ==
    IF /\ <<agent_id, data_type, purpose>> \in DOMAIN consent_records
       /\ ~is_expired(consent_records[<<agent_id, data_type, purpose>>])
    THEN Some(consent_records[<<agent_id, data_type, purpose>>])
    ELSE None

\* ConsentStore.find: the exact record, else the blanket record, unless expired
consent_find(agent_id, data_type, purpose) ==
    LET exact_key == <<agent_id, data_type, purpose>>
        blanket_key == <<agent_id, data_type, None>>
    IN  IF /\ purpose # None
           /\ exact_key \in DOMAIN consent_records
           /\ ~is_expired(consent_records[exact_key])
        THEN Some(consent_records[exact_key])
        ELSE IF /\ blanket_key \in DOMAIN consent_records
                /\ ~is_expired(consent_records[blanket_key])
             THEN Some(consent_records[blanket_key])
             ELSE None

\* a removal that takes every record of (agent_id, data_type) with it
store_remove_every_purpose(recs, agent_id, data_type, purpose) ==
    LET key == <<agent_id, data_type, purpose>>
        left == {k \in DOMAIN recs : ~(k[1] = agent_id /\ k[2] = data_type)}
    IN  IF key \in DOMAIN recs
        THEN [removed |-> TRUE, records |-> [k \in left |-> recs[k]]]
        ELSE [removed |-> FALSE, records |-> recs]

\* ConsentStore.remove: deletes the record under exactly that key, and tells
\* whether there was one
store_remove(recs, agent_id, data_type, purpose) ==
    LET key == <<agent_id, data_type, purpose>>
    IN  IF key \in DOMAIN recs
        THEN [removed |-> TRUE,
              records |-> [k \in DOMAIN recs \ {key} |-> recs[k]]]
        ELSE [removed |-> FALSE, records |-> recs]

\* ConsentManager.check_consent: the ConsentCheckResult
check_consent(agent_id, data_type, purpose) ==
    LET record == consent_find(agent_id, data_type, purpose)
    IN  [check |-> "consent",
         granted |-> (record # None) \/ ~cfg.default_deny,
         agent_id |-> agent_id, data_type |-> data_type, purpose |-> purpose,
         record |-> record]

-----------------------------------------------------------------------------
(* aumos_governance.audit and aumos_governance.engine                       *)

\* collections.deque(maxlen=n).append: the oldest element is dropped when full
deque_append(q, x, maxlen) ==
    IF Len(q) >= maxlen THEN Append(Tail(q), x) ELSE Append(q, x)

\* create_record, with AuditLogger.log's choice of the stored context
create_record(outcome, decision, reasons, context) ==
    [record_id |-> gov_next_id, outcome |-> outcome, decision |-> decision,
     reasons |-> reasons,
     context |-> IF cfg.include_context THEN Some(context) ELSE None,
     timestamp |-> day]

\* GovernanceDecisionContext built by _record_and_build
DecisionContext(action) ==
    [agent_id |-> action.agent_id, action_type |-> action.action_type,
     resource |-> action.resource, scope |-> action.scope,
     budget_category |-> action.budget_category, data_type |-> action.data_type,
     purpose |-> action.purpose, extra |-> action.extra]

\* the decision text of _record_and_build: the agent and the outcome in upper case
decision_text(action, outcome) ==
    <<action.agent_id, IF outcome = "allow" THEN "ALLOW" ELSE "DENY">>

\* the record _record_and_build hands to the audit log
record_for(action, outcome, reasons) ==
    create_record(outcome, decision_text(action, outcome), reasons,
                  DecisionContext(action))

\* the check results of the three steps of evaluate
TrustStep(action) ==
    check_level(action.agent_id, action.required_trust_level[1], action.scope)

BudgetStep(action) ==
    check_budget(action.budget_category[1],
                 IF action.budget_amount = None THEN 0
                 ELSE action.budget_amount[1])

ConsentStep(action) ==
    check_consent(action.agent_id, action.data_type[1], action.purpose)

Outcome(performed_, reasons, outcome, envs) ==
    [performed |-> performed_, reasons |-> reasons, outcome |-> outcome,
     envelopes |-> envs]

\* an evaluate that runs every requested check before it decides
evaluate_all_checks(action) ==
    LET t == action.required_trust_level # None
        b == action.budget_category # None
        c == action.data_type # None
        p == (IF t THEN <<"trust">> ELSE <<>>) \o (IF b THEN <<"budget">> ELSE <<>>)
             \o (IF c THEN <<"consent">> ELSE <<>>)
    IN  IF b /\ BudgetStep(action).raised
        THEN Outcome(p, <<>>, "raised", envelopes)
        ELSE Outcome(p,
                 (IF t THEN <<TrustStep(action)>> ELSE <<>>)
                 \o (IF b THEN <<BudgetStep(action).result>> ELSE <<>>)
                 \o (IF c THEN <<ConsentStep(action)>> ELSE <<>>),
                 IF \/ t /\ ~TrustStep(action).allowed
                    \/ b /\ ~BudgetStep(action).result.allowed
                    \/ c /\ ~ConsentStep(action).granted
                 THEN "deny" ELSE "allow",
                 envelopes)

\* GovernanceEngine.evaluate up to its return or raise: the checks called, the
\* reasons collected, the outcome ("raised" when check_budget raises) and the
\* budget tracker the calls leave behind
evaluate(action) ==
    LET t == action.required_trust_level # None
        b == action.budget_category # None
        c == action.data_type # None
        p1 == IF t THEN <<"trust">> ELSE <<>>
        r1 == IF t THEN <<TrustStep(action)>> ELSE <<>>
        p2 == IF b THEN Append(p1, "budget") ELSE p1
        r2 == IF b THEN Append(r1, BudgetStep(action).result) ELSE r1
        e2 == IF b THEN BudgetStep(action).envelopes ELSE envelopes
        p3 == IF c THEN Append(p2, "consent") ELSE p2
        r3 == IF c THEN Append(r2, ConsentStep(action)) ELSE r2
    IN  IF t /\ ~TrustStep(action).allowed
        THEN Outcome(p1, r1, "deny", envelopes)
        ELSE IF b /\ BudgetStep(action).raised
        THEN Outcome(p2, r1, "raised", e2)
        ELSE IF b /\ ~BudgetStep(action).result.allowed
        THEN Outcome(p2, r2, "deny", e2)
        ELSE IF c /\ ~ConsentStep(action).granted
        THEN Outcome(p3, r3, "deny", e2)
        ELSE Outcome(p3, r3, "allow", e2)

\* the GovernanceDecision _record_and_build returns
GovernanceDecision(via, action, outcome, reasons, record) ==
    [kind |-> "decision", via |-> via, outcome |-> outcome,
     allowed |-> outcome \in {"allow", "allow_with_caveat"},
     reasons |-> reasons, audit_record_id |-> record.record_id,
     action |-> action]

NoReturn == [kind |-> "none"]

EmptyMap == [k \in {} |-> None]

\* the GovernanceAction values the evaluations are drawn from
GovActions ==
    LET plain == [agent_id |-> "a1", required_trust_level |-> None, scope |-> None,
                  budget_category |-> None, budget_amount |-> None,
                  data_type |-> None, purpose |-> None, action_type |-> None,
                  resource |-> None, extra |-> <<>>]
    IN  { plain,
          [plain EXCEPT !.required_trust_level = Some(3)],
          [plain EXCEPT !.required_trust_level = Some(3), !.scope = Some("s"),
                        !.budget_category = Some("llm"), !.budget_amount = Some(1),
                        !.data_type = Some("user"), !.purpose = Some("support"),
                        !.action_type = Some("tool_call")],
          [plain EXCEPT !.required_trust_level = Some(3),
                        !.budget_category = Some("llm"), !.budget_amount = Some(3),
                        !.data_type = Some("user")],
          [plain EXCEPT !.budget_category = Some("llm"),
                        !.data_type = Some("user")],
          [plain EXCEPT !.budget_category = Some("gpu"), !.budget_amount = Some(1)] }

-----------------------------------------------------------------------------
(* Calls on one GovernanceEngine                                            *)

\* GovernanceEngine.__init__ under configuration c: every collaborator empty
GovInitWith(c) ==
    /\ cfg = c
    /\ day = 0
    /\ trust_store = EmptyMap
    /\ envelopes = EmptyMap
    /\ consent_records = EmptyMap
    /\ audit_records = <<>>
    /\ gov_next_id = 1
    /\ gov_calls = 0
    /\ returned = NoReturn
    /\ performed = <<>>

GovInit == \E c \in Configs : GovInitWith(c)

\* bookkeeping shared by the calls that are not evaluations
OtherCall ==
    /\ gov_calls < MaxCalls
    /\ gov_calls' = gov_calls + 1
    /\ returned' = NoReturn
    /\ performed' = <<>>
    /\ UNCHANGED <<cfg, day, audit_records, gov_next_id>>
    /\ UNCHANGED nonGovVars

\* engine.trust.set_level(agent_id, level, scope)
SetLevel(agent_id, level, scope) ==
    /\ OtherCall
    /\ trust_store' = set_level(trust_store, agent_id, level, scope)
    /\ UNCHANGED <<envelopes, consent_records>>

\* engine.budget.create_budget(category, limit, period); it raises, changing
\* nothing, for a negative limit, an unknown period or an existing category
CreateBudget(category, limit, period) ==
    /\ OtherCall
    /\ limit >= 0
    /\ period \in BUDGET_PERIOD_VALUES
    /\ category \notin DOMAIN envelopes
    /\ envelopes' = [k \in DOMAIN envelopes \cup {category} |->
                        IF k = category THEN BudgetEnvelope(category, limit, period)
                        ELSE envelopes[k]]
    /\ UNCHANGED <<trust_store, consent_records>>

\* engine.budget.record_spending(category, amount) on an existing category
RecordSpending(category, amount) ==
    /\ OtherCall
    /\ category \in DOMAIN envelopes
    /\ envelopes' = record_spending(envelopes, category, amount)
    /\ UNCHANGED <<trust_store, consent_records>>

\* engine.consent.record_consent(agent_id, data_type, purpose, granted_by, expires_at)
RecordConsent(agent_id, data_type, purpose, expires_at) ==
    /\ OtherCall
    /\ consent_records' =
          [k \in DOMAIN consent_records \cup {<<agent_id, data_type, purpose>>} |->
              IF k = <<agent_id, data_type, purpose>>
              THEN [agent_id |-> agent_id, data_type |-> data_type,
                    purpose |-> purpose, granted_by |-> "admin",
                    granted_at |-> day, expires_at |-> expires_at]
              ELSE consent_records[k]]
    /\ UNCHANGED <<trust_store, envelopes>>

\* engine.budget.record_spending(category, amount), with the way the call ended
BudgetRecordSpending(category, amount) ==
    /\ gov_calls < MaxCalls
    /\ gov_calls' = gov_calls + 1
    /\ returned' = [kind |-> "record_spending", category |-> category,
                    amount |-> amount,
                    raised |-> record_spending_raises(envelopes, category, amount)]
    /\ performed' = <<>>
    /\ envelopes' = IF category \in DOMAIN envelopes
                    THEN record_spending(envelopes, category, amount)
                    ELSE envelopes
    /\ UNCHANGED <<cfg, day, trust_store, consent_records, audit_records, gov_next_id>>
    /\ UNCHANGED nonGovVars

\* engine.budget.check_budget(category, amount)
BudgetCheckBudget(category, amount) ==
    /\ gov_calls < MaxCalls
    /\ gov_calls' = gov_calls + 1
    /\ returned' = [kind |-> "check_budget", category |-> category,
                    amount |-> amount,
                    raised |-> check_budget(category, amount).raised,
                    result |-> IF check_budget(category, amount).raised THEN None
                               ELSE Some(check_budget(category, amount).result)]
    /\ performed' = <<>>
    /\ envelopes' = check_budget(category, amount).envelopes
    /\ UNCHANGED <<cfg, day, trust_store, consent_records, audit_records, gov_next_id>>
    /\ UNCHANGED nonGovVars

\* engine.consent.check_consent(agent_id, data_type, purpose)
CheckConsent(agent_id, data_type, purpose) ==
    /\ gov_calls < MaxCalls
    /\ gov_calls' = gov_calls + 1
    /\ returned' = [kind |-> "check_consent",
                    result |-> check_consent(agent_id, data_type, purpose)]
    /\ performed' = <<>>
    /\ UNCHANGED <<cfg, day, trust_store, envelopes, consent_records, audit_records,
                   gov_next_id>>
    /\ UNCHANGED nonGovVars

\* engine.consent.revoke_consent(agent_id, data_type, purpose): raises
\* ConsentNotFoundError when the store removed nothing
RevokeConsent(agent_id, data_type, purpose) ==
    /\ gov_calls < MaxCalls
    /\ gov_calls' = gov_calls + 1
    /\ LET removal == store_remove(consent_records, agent_id, data_type, purpose)
       IN  /\ consent_records' = removal.records
           /\ returned' = [kind |-> "revoke_consent", agent_id |-> agent_id,
                           data_type |-> data_type, purpose |-> purpose,
                           raised |-> IF removal.removed THEN ""
                                      ELSE "ConsentNotFoundError"]
    /\ performed' = <<>>
    /\ UNCHANGED <<cfg, day, trust_store, envelopes, audit_records, gov_next_id>>
    /\ UNCHANGED nonGovVars

\* a call on engine.trust that leaves everything but the trust store alone
TrustCall ==
    /\ gov_calls < MaxCalls
    /\ gov_calls' = gov_calls + 1
    /\ performed' = <<>>
    /\ UNCHANGED <<cfg, day, envelopes, consent_records, audit_records, gov_next_id>>
    /\ UNCHANGED nonGovVars

\* engine.trust.set_level(agent_id, level, scope), observed
TrustSetLevel(agent_id, level, scope) ==
    /\ TrustCall
    /\ trust_store' = set_level(trust_store, agent_id, level, scope)
    /\ returned' = [kind |-> "set_level", agent_id |-> agent_id, level |-> level,
                    scope |-> scope]

\* engine.trust.get_level(agent_id, scope)
TrustGetLevel(agent_id, scope) ==
    /\ TrustCall
    /\ returned' = [kind |-> "get_level", agent_id |-> agent_id, scope |-> scope,
                    level |-> get_level(agent_id, scope)]
    /\ UNCHANGED trust_store

\* engine.trust.check_level(agent_id, required_level, scope)
TrustCheckLevel(agent_id, required_level, scope) ==
    /\ TrustCall
    /\ returned' = [kind |-> "check_level", agent_id |-> agent_id, scope |-> scope,
                    result |-> check_level(agent_id, required_level, scope)]
    /\ UNCHANGED trust_store

\* engine.trust.require_level(agent_id, required_level, scope)
TrustRequireLevel(agent_id, required_level, scope) ==
    /\ TrustCall
    /\ returned' = [kind |-> "require_level", agent_id |-> agent_id, scope |-> scope,
                    raised |-> require_level_raises(agent_id, required_level, scope)]
    /\ UNCHANGED trust_store

\* engine.trust.touch(agent_id, scope)
TrustTouch(agent_id, scope) ==
    /\ TrustCall
    /\ trust_store' = touch(trust_store, agent_id, scope)
    /\ returned' = [kind |-> "touch", agent_id |-> agent_id, scope |-> scope]

\* engine.trust.remove(agent_id, scope)
TrustRemove(agent_id, scope) ==
    /\ TrustCall
    /\ trust_store' = trust_remove(trust_store, agent_id, scope).store
    /\ returned' = [kind |-> "remove", agent_id |-> agent_id, scope |-> scope,
                    removed |-> trust_remove(trust_store, agent_id, scope).removed]

\* a day passes
AdvanceDay ==
    /\ day < MaxDay
    /\ day' = day + 1
    /\ returned' = NoReturn
    /\ performed' = <<>>
    /\ UNCHANGED <<cfg, trust_store, envelopes, consent_records, audit_records,
                   gov_next_id, gov_calls>>
    /\ UNCHANGED nonGovVars

\* one evaluation through the surface "via": the pipeline of evaluate, then
\* _record_and_build unless check_budget raised
EvaluateVia(via, action) ==
    /\ gov_calls < MaxCalls
    /\ gov_calls' = gov_calls + 1
    /\ performed' = evaluate(action).performed
    /\ envelopes' = evaluate(action).envelopes
    /\ IF evaluate(action).outcome = "raised"
       THEN /\ returned' = [kind |-> "raised", via |-> via,
                            error |-> "BudgetNotFoundError", action |-> action]
            /\ UNCHANGED <<audit_records, gov_next_id>>
       ELSE /\ audit_records' =
                  deque_append(audit_records,
                      record_for(action, evaluate(action).outcome,
                                 evaluate(action).reasons),
                      cfg.max_records)
            /\ gov_next_id' = gov_next_id + 1
            /\ returned' =
                  GovernanceDecision(via, action, evaluate(action).outcome,
                      evaluate(action).reasons,
                      record_for(action, evaluate(action).outcome,
                                 evaluate(action).reasons))
    /\ UNCHANGED <<cfg, day, trust_store, consent_records>>
    /\ UNCHANGED nonGovVars

\* await engine.evaluate(action)
Evaluate(action) == EvaluateVia("evaluate", action)

\* engine.evaluate_sync(action): asyncio.run(self.evaluate(action))
EvaluateSync(action) == EvaluateVia("evaluate_sync", action)

-----------------------------------------------------------------------------
(* aumos_governance.audit_chain.HashChainedAuditLog                         *)

\* appends made on one log per behaviour
MaxAppends == 3

\* HashChainedAuditLog._GENESIS_HASH: the digest of b"AUMOS_GENESIS_BLOCK"
CHAINED_GENESIS_HASH == <<"AUMOS_GENESIS_BLOCK">>

\* the default of max_size
DEFAULT_MAX_SIZE == 10000

\* the max_size values a log under study is constructed with
MaxSizes == {1, 2, DEFAULT_MAX_SIZE}

\* _compute_record_hash: the digest of the canonical fields in their fixed
\* order (SHA-256 as an injective function of its input)
compute_record_hash(record_id, timestamp, agent_id, action, decision, details, previous_hash) ==
    <<record_id, timestamp, agent_id, action, decision, details, previous_hash>>

ChainedAuditRecord(record_id, timestamp, agent_id, action, decision, details, previous_hash, record_hash) ==
    [record_id |-> record_id, timestamp |-> timestamp, agent_id |-> agent_id,
     action |-> action, decision |-> decision, details |-> details,
     previous_hash |-> previous_hash, record_hash |-> record_hash]

\* the loop of HashChainedAuditLog.verify_chain from (1-based) position i;
\* the error names the 0-based index and the field that mismatched
RECURSIVE chained_verify_from(_, _, _)
chained_verify_from(rs, i, expected_previous) ==
    IF i > Len(rs) THEN <<TRUE, None>>
    ELSE IF rs[i].previous_hash # expected_previous
         THEN <<FALSE, Some([index |-> i - 1, mismatch |-> "previous_hash"])>>
    ELSE IF rs[i].record_hash #
               compute_record_hash(rs[i].record_id, rs[i].timestamp, rs[i].agent_id,
                                   rs[i].action, rs[i].decision, rs[i].details,
                                   rs[i].previous_hash)
         THEN <<FALSE, Some([index |-> i - 1, mismatch |-> "record_hash"])>>
    ELSE chained_verify_from(rs, i + 1, rs[i].record_hash)

\* HashChainedAuditLog.verify_chain over list(self._chain)
chained_verify_chain(rs) ==
    IF rs = <<>> THEN <<TRUE, None>>
    ELSE chained_verify_from(rs, 1, CHAINED_GENESIS_HASH)

\* HashChainedAuditLog(max_size)
ChainedInitWith(max_size) ==
    /\ hcl_max_size = max_size
    /\ hcl_chain = <<>>
    /\ hcl_last_hash = CHAINED_GENESIS_HASH
    /\ hcl_next_id = 1
    /\ hcl_now = 0
    /\ hcl_returned = NoReturn

\* HashChainedAuditLog()
ChainedInit == ChainedInitWith(DEFAULT_MAX_SIZE)

\* HashChainedAuditLog.append(agent_id, action, decision, details)
ChainedAppend(agent_id, action, decision, details) ==
    /\ hcl_next_id <= MaxAppends
    /\ LET record_id == hcl_next_id
           timestamp == hcl_now
           safe_details == IF details = None THEN EmptyMap ELSE details[1]
           record_hash == compute_record_hash(record_id, timestamp, agent_id, action,
                                              decision, safe_details, hcl_last_hash)
           record == ChainedAuditRecord(record_id, timestamp, agent_id, action,
                                        decision, safe_details, hcl_last_hash,
                                        record_hash)
       IN  /\ hcl_chain' = deque_append(hcl_chain, record, hcl_max_size)
           /\ hcl_last_hash' = record_hash
           /\ hcl_returned' = [kind |-> "append", record |-> record]
    /\ hcl_next_id' = hcl_next_id + 1
    /\ UNCHANGED <<hcl_max_size, hcl_now>>
    /\ UNCHANGED nonChainedVars

\* HashChainedAuditLog.verify_chain()
ChainedVerifyChain ==
    /\ hcl_returned' = [kind |-> "verify_chain",
                        result |-> chained_verify_chain(hcl_chain)]
    /\ UNCHANGED <<hcl_max_size, hcl_chain, hcl_last_hash, hcl_next_id, hcl_now>>
    /\ UNCHANGED nonChainedVars

\* the wall clock read by datetime.now advances
ChainedTick ==
    /\ hcl_now < MaxClock
    /\ hcl_now' = hcl_now + 1
    /\ hcl_returned' = NoReturn
    /\ UNCHANGED <<hcl_max_size, hcl_chain, hcl_last_hash, hcl_next_id>>
    /\ UNCHANGED nonChainedVars

-----------------------------------------------------------------------------
(* trust_ladder: levels, decay engine, assignment store                     *)

\* calls made on one TrustLadder per behaviour
MaxLadderCalls == 3

\* largest reading of the wall clock, in milliseconds
MaxMs == 2

TRUST_LEVEL_MIN == 0

TRUST_LEVEL_MAX == 5

\* the TrustLadderConfig values a behaviour starts from
LadderConfigs ==
    { [decay |-> d, default_scope |-> "", max_history_per_scope |-> 2] :
        d \in { [enabled |-> FALSE, type |-> "none", ttl_ms |-> 0, step_interval_ms |-> 0],
                [enabled |-> TRUE, type |-> "cliff", ttl_ms |-> 2, step_interval_ms |-> 0],
                [enabled |-> TRUE, type |-> "gradual", ttl_ms |-> 0, step_interval_ms |-> 1],
                [enabled |-> TRUE, type |-> "gradual", ttl_ms |-> 0, step_interval_ms |-> 2] } }

LadderAgents == {"a1"}

\* the agents of the runs in which one agent is revoked next to another
RevokeAgents == {"a1", "a2"}

\* the scope arguments of the calls: None stands for "use the default scope"
LadderScopeArgs == {None, Some("s")}

\* the scope arguments of revoke: every scope of the agent (None), the global
\* scope named explicitly, or scope "s"
RevokeScopeArgs == {None, Some(""), Some("s")}

\* the levels handed to assign
LadderLevels == {2, 5}

\* the scopes the calls name: the global scope "" and scope "s"
LadderScopes == {"", "s"}

\* clamp_trust_level
clamp_trust_level(value) ==
    Max(TRUST_LEVEL_MIN, Min(TRUST_LEVEL_MAX, value))

DecayResult(effective_level, decayed_to_floor, new_step_count) ==
    [effective_level |-> effective_level, decayed_to_floor |-> decayed_to_floor,
     new_step_count |-> new_step_count]

\* DecayEngine._apply_cliff_decay with the expiry test off by one
apply_cliff_decay_late(config, assignment, now_ms) ==
    LET elapsed_ms == now_ms - assignment.assigned_at
    IN  IF elapsed_ms > config.ttl_ms
        THEN DecayResult(TRUST_LEVEL_MIN, TRUE,
                 IF assignment.assigned_level > TRUST_LEVEL_MIN THEN 1 ELSE 0)
        ELSE DecayResult(assignment.assigned_level, FALSE, 0)

\* DecayEngine._apply_cliff_decay
apply_cliff_decay(config, assignment, now_ms) ==
    LET elapsed_ms == now_ms - assignment.assigned_at
    IN  IF elapsed_ms >= config.ttl_ms
        THEN DecayResult(TRUST_LEVEL_MIN, TRUE,
                 IF assignment.assigned_level > TRUST_LEVEL_MIN THEN 1 ELSE 0)
        ELSE DecayResult(assignment.assigned_level, FALSE, 0)

\* math.floor(a / b) for b > 0 (the float quotient is exact enough for its
\* floor at the magnitudes of millisecond timestamps and intervals)
floor_div(a, b) == IF a >= 0 THEN a \div b ELSE -((-a + b - 1) \div b)

\* DecayEngine._apply_gradual_decay with the step count added instead of
\* subtracted
apply_gradual_decay_rising(config, assignment, now_ms) ==
    LET elapsed_ms == now_ms - assignment.assigned_at
        steps_elapsed == floor_div(elapsed_ms, config.step_interval_ms)
        raw_level == assignment.assigned_level + steps_elapsed
        effective == clamp_trust_level(Max(TRUST_LEVEL_MIN, raw_level))
    IN  DecayResult(effective, effective = TRUST_LEVEL_MIN,
                    Min(steps_elapsed, assignment.assigned_level))

\* DecayEngine._apply_gradual_decay
apply_gradual_decay(config, assignment, now_ms) ==
    LET elapsed_ms == now_ms - assignment.assigned_at
        steps_elapsed == floor_div(elapsed_ms, config.step_interval_ms)
        raw_level == assignment.assigned_level - steps_elapsed
        effective == clamp_trust_level(Max(TRUST_LEVEL_MIN, raw_level))
    IN  DecayResult(effective, effective = TRUST_LEVEL_MIN,
                    Min(steps_elapsed, assignment.assigned_level))

\* DecayEngine.compute
compute(config, assignment, now_ms) ==
    IF ~config.enabled THEN DecayResult(assignment.assigned_level, FALSE, 0)
    ELSE IF config.type = "cliff" THEN apply_cliff_decay(config, assignment, now_ms)
    ELSE apply_gradual_decay(config, assignment, now_ms)

\* the separator byte "\x00" of build_scope_key
NUL == "\\x00"

\* build_scope_key with the scope left out of the key
build_scope_key_agent_only(agent_id, scope) == agent_id \o NUL

\* build_scope_key: f"{agent_id}\x00{scope}"
build_scope_key(agent_id, scope) == agent_id \o NUL \o scope

\* AssignmentStore.get falling back to the agent's global assignment
store_get_global_fallback(stored, agent_id, scope_name) ==
    IF build_scope_key(agent_id, scope_name) \in DOMAIN stored
    THEN Some(stored[build_scope_key(agent_id, scope_name)])
    ELSE IF build_scope_key(agent_id, "") \in DOMAIN stored
    THEN Some(stored[build_scope_key(agent_id, "")])
    ELSE None

\* AssignmentStore.get
store_get(stored, agent_id, scope_name) ==
    IF build_scope_key(agent_id, scope_name) \in DOMAIN stored
    THEN Some(stored[build_scope_key(agent_id, scope_name)])
    ELSE None

\* AssignmentStore._append_history dropping the newest entries over the cap
append_history_keep_oldest(hist, key, record, max_history_per_scope) ==
    LET old == IF key \in DOMAIN hist THEN hist[key] ELSE <<>>
        grown == Append(old, record)
        kept == IF max_history_per_scope > 0 /\ Len(grown) > max_history_per_scope
                THEN SubSeq(grown, 1, max_history_per_scope)
                ELSE grown
    IN  [k \in DOMAIN hist \cup {key} |-> IF k = key THEN kept ELSE hist[k]]

\* AssignmentStore._append_history: append, then drop the oldest entries over
\* the cap (a cap of 0 means unlimited)
append_history(hist, key, record, max_history_per_scope) ==
    LET old == IF key \in DOMAIN hist THEN hist[key] ELSE <<>>
        grown == Append(old, record)
        kept == IF max_history_per_scope > 0 /\ Len(grown) > max_history_per_scope
                THEN SubSeq(grown, Len(grown) - max_history_per_scope + 1, Len(grown))
                ELSE grown
    IN  [k \in DOMAIN hist \cup {key} |-> IF k = key THEN kept ELSE hist[k]]

TrustChangeRecord(agent_id, scope, previous_level, new_level, changed_at, change_kind) ==
    [agent_id |-> agent_id, scope |-> scope, previous_level |-> previous_level,
     new_level |-> new_level, changed_at |-> changed_at, change_kind |-> change_kind]

\* AssignmentStore.get_history
get_history(hist, agent_id, scope_name) ==
    IF build_scope_key(agent_id, scope_name) \in DOMAIN hist
    THEN hist[build_scope_key(agent_id, scope_name)]
    ELSE <<>>

\* the level TrustLadder.get_level returns at now_ms
ladder_get_level(stored, agent_id, scope_name, now_ms) ==
    IF store_get(stored, agent_id, scope_name) = None THEN TRUST_LEVEL_MIN
    ELSE compute(ladder_cfg.decay, store_get(stored, agent_id, scope_name)[1],
                 now_ms).effective_level

\* AssignmentStore.get_last_recorded_level
get_last_recorded_level(hist, key) ==
    IF key \notin DOMAIN hist \/ hist[key] = <<>> THEN None
    ELSE Some(hist[key][Len(hist[key])].new_level)

-----------------------------------------------------------------------------
(* Calls on one TrustLadder                                                 *)

\* TrustLadder.__init__ under configuration c
LadderInitWith(c) ==
    /\ ladder_cfg = c
    /\ clock_ms = 0
    /\ assignments = EmptyMap
    /\ history = EmptyMap
    /\ ladder_calls = 0
    /\ ladder_returned = NoReturn

LadderInit == \E c \in LadderConfigs : LadderInitWith(c)

\* scope if scope is not None else self._default_scope
resolved_scope(scope) == IF scope = None THEN ladder_cfg.default_scope ELSE scope[1]

LadderCall ==
    /\ ladder_calls < MaxLadderCalls
    /\ ladder_calls' = ladder_calls + 1
    /\ UNCHANGED <<ladder_cfg, clock_ms>>
    /\ UNCHANGED nonLadderVars

\* TrustLadder.assign -> AssignmentStore.record
Assign(agent_id, level, scope) ==
    LET key == build_scope_key(agent_id, resolved_scope(scope))
        previous == IF key \in DOMAIN assignments
                    THEN Some(assignments[key].assigned_level) ELSE None
        assignment == [agent_id |-> agent_id, scope |-> resolved_scope(scope),
                       assigned_level |-> level, assigned_at |-> clock_ms]
    IN  /\ LadderCall
        /\ level \in TRUST_LEVEL_MIN..TRUST_LEVEL_MAX
        /\ assignments' = [k \in DOMAIN assignments \cup {key} |->
                              IF k = key THEN assignment ELSE assignments[k]]
        /\ history' = append_history(history, key,
                          TrustChangeRecord(agent_id, resolved_scope(scope), previous,
                                            level, clock_ms, "manual"),
                          ladder_cfg.max_history_per_scope)
        /\ ladder_returned' = [kind |-> "assign", agent_id |-> agent_id,
                                scope |-> Some(resolved_scope(scope)), level |-> level]

\* the history TrustLadder.get_level leaves behind: a decay entry when the
\* effective level differs from the assigned level and from the level last
\* recorded
history_after_get_level(agent_id, scope_name, assignment, now_ms) ==
    LET key == build_scope_key(agent_id, scope_name)
        effective == compute(ladder_cfg.decay, assignment, now_ms).effective_level
        last_recorded == get_last_recorded_level(history, key)
    IN  IF /\ effective # assignment.assigned_level
           /\ (last_recorded = None \/ last_recorded[1] # effective)
        THEN append_history(history, key,
                 TrustChangeRecord(agent_id, scope_name,
                     Some(IF last_recorded # None THEN last_recorded[1]
                          ELSE assignment.assigned_level),
                     effective, now_ms,
                     IF ladder_cfg.decay.type = "cliff" THEN "decay_cliff"
                     ELSE "decay_step"),
                 ladder_cfg.max_history_per_scope)
        ELSE history

\* TrustLadder.get_level
GetLevel(agent_id, scope) ==
    LET assignment == store_get(assignments, agent_id, resolved_scope(scope))
    IN  /\ LadderCall
        /\ UNCHANGED assignments
        /\ IF assignment = None
           THEN /\ ladder_returned' =
                      [kind |-> "get_level", agent_id |-> agent_id,
                       scope |-> resolved_scope(scope),
                       assignment |-> None, now_ms |-> clock_ms,
                       effective_level |->
                           ladder_get_level(assignments, agent_id,
                                            resolved_scope(scope), clock_ms)]
                /\ UNCHANGED history
           ELSE /\ ladder_returned' =
                      [kind |-> "get_level", agent_id |-> agent_id,
                       scope |-> resolved_scope(scope),
                       assignment |-> assignment, now_ms |-> clock_ms,
                       effective_level |->
                           ladder_get_level(assignments, agent_id,
                                            resolved_scope(scope), clock_ms)]
                /\ history' = history_after_get_level(agent_id, resolved_scope(scope),
                                                      assignment[1], clock_ms)

\* DecayEngine.compute on a stored assignment, for a time the caller chooses
Compute(agent_id, scope_name, now_ms) ==
    /\ LadderCall
    /\ build_scope_key(agent_id, scope_name) \in DOMAIN assignments
    /\ ladder_returned' =
          [kind |-> "compute",
           assignment |-> Some(assignments[build_scope_key(agent_id, scope_name)]),
           now_ms |-> now_ms,
           effective_level |->
               compute(ladder_cfg.decay,
                       assignments[build_scope_key(agent_id, scope_name)],
                       now_ms).effective_level]
    /\ UNCHANGED <<assignments, history>>

\* AssignmentStore.revoke
store_revoke(state, agent_id, scope_name, now_ms) ==
    LET key == build_scope_key(agent_id, scope_name)
    IN  IF key \notin DOMAIN state.assignments THEN state
        ELSE [assignments |-> [k \in DOMAIN state.assignments \ {key} |->
                                  state.assignments[k]],
              history |-> append_history(state.history, key,
                              TrustChangeRecord(agent_id, scope_name,
                                  Some(state.assignments[key].assigned_level),
                                  TRUST_LEVEL_MIN, now_ms, "revocation"),
                              ladder_cfg.max_history_per_scope)]

\* list(self._store.list_all()): the stored assignments
list_all(stored) == { stored[k] : k \in DOMAIN stored }

\* the loop of TrustLadder.revoke without its test of the agent
RECURSIVE revoke_all_agents(_, _, _, _)
revoke_all_agents(state, agent_id, listed, now_ms) ==
    IF listed = {} THEN state
    ELSE LET assignment == CHOOSE a \in listed : TRUE
         IN  revoke_all_agents(store_revoke(state, assignment.agent_id,
                                            assignment.scope, now_ms),
                               agent_id, listed \ {assignment}, now_ms)

\* the loop of TrustLadder.revoke over the assignments listed before it starts:
\* those of the agent are revoked one after the other
RECURSIVE revoke_all(_, _, _, _)
revoke_all(state, agent_id, listed, now_ms) ==
    IF listed = {} THEN state
    ELSE LET assignment == CHOOSE a \in listed : TRUE
         IN  revoke_all(IF assignment.agent_id = agent_id
                        THEN store_revoke(state, assignment.agent_id,
                                          assignment.scope, now_ms)
                        ELSE state,
                        agent_id, listed \ {assignment}, now_ms)

\* TrustLadder.revoke: one scope, or every scope of the agent when scope is None
Revoke(agent_id, scope) ==
    LET state == [assignments |-> assignments, history |-> history]
        after == IF scope # None
                 THEN store_revoke(state, agent_id, scope[1], clock_ms)
                 ELSE revoke_all(state, agent_id, list_all(assignments), clock_ms)
    IN  /\ LadderCall
        /\ assignments' = after.assignments
        /\ history' = after.history
        /\ ladder_returned' = [kind |-> "revoke", agent_id |-> agent_id, scope |-> scope]

\* the wall clock moves on
ClockAdvance ==
    /\ clock_ms < MaxMs
    /\ clock_ms' = clock_ms + 1
    /\ UNCHANGED <<ladder_cfg, assignments, history, ladder_calls, ladder_returned>>
    /\ UNCHANGED nonLadderVars

\* the wall clock is set back (time.time() is not monotonic)
ClockStepBack ==
    /\ clock_ms > 0
    /\ clock_ms' = clock_ms - 1
    /\ UNCHANGED <<ladder_cfg, assignments, history, ladder_calls, ladder_returned>>
    /\ UNCHANGED nonLadderVars

-----------------------------------------------------------------------------
(* budget_enforcer: envelopes, transactions, commits                        *)

\* calls made on one BudgetEnforcer per behaviour
MaxEnfCalls == 4

\* readings of the clock per behaviour beyond the first
MaxEnfTicks == 2

\* the clock moves in steps of half an hour
TickSeconds == 30 * 60

\* PERIOD_SECONDS
PERIOD_SECONDS ==
    [hourly |-> 3600, daily |-> 86400, weekly |-> 604800, monthly |-> 2592000]

\* the categories the calls name: "llm" gets an envelope, "gpu" never does
EnfCategories == {"llm", "gpu"}

\* the amounts handed to check, record and commit
EnfAmounts == {-1, 1, 2}

\* the periods of the envelopes created
EnfPeriods == {"hourly", "total"}

\* str(uuid4()): the n-th fresh id
Uuid(n) == <<"uuid", n>>

\* the ids release is called with
EnfCommitIds == { Uuid(n) : n \in 1..(MaxEnfCalls + 1) }

\* envelope.create_envelope
SpendingEnvelope(id, category, limit, period, now) ==
    [id |-> id, category |-> category, limit |-> limit, period |-> period,
     spent |-> 0, committed |-> 0, period_start |-> now, suspended |-> FALSE]

\* a refresh that starts the new period at the time of the call
refresh_envelope_period_drifting(envelope, now) ==
    IF envelope.period = "total" THEN envelope
    ELSE IF now - envelope.period_start < PERIOD_SECONDS[envelope.period]
    THEN envelope
    ELSE [envelope EXCEPT !.spent = 0, !.committed = 0, !.period_start = now]

\* envelope.refresh_envelope_period
refresh_envelope_period(envelope, now) ==
    IF envelope.period = "total" THEN envelope
    ELSE LET duration_seconds == PERIOD_SECONDS[envelope.period]
             elapsed == now - envelope.period_start
             periods_elapsed == elapsed \div duration_seconds
         IN  IF elapsed < duration_seconds THEN envelope
             ELSE [envelope EXCEPT
                      !.spent = 0, !.committed = 0,
                      !.period_start = envelope.period_start
                                         + periods_elapsed * duration_seconds]

\* envelope.available_balance
available_balance(envelope) ==
    Max(0, envelope.limit - envelope.spent - envelope.committed)

\* BudgetEnforcer._get_envelope_by_category
get_envelope_by_category(envs, by_category, category) ==
    IF category \notin DOMAIN by_category THEN None
    ELSE IF by_category[category] \notin DOMAIN envs THEN None
    ELSE Some(envs[by_category[category]])

\* a mapping with one entry set
Put(map, key, value) ==
    [k \in DOMAIN map \cup {key} |-> IF k = key THEN value ELSE map[k]]

\* a mapping with one entry removed
Drop(map, key) == [k \in DOMAIN map \ {key} |-> map[k]]

\* BudgetEnforcer._refresh_period on the envelope of a category: the
\* envelopes after it
refresh_period(envs, by_category, category, now) ==
    LET envelope == get_envelope_by_category(envs, by_category, category)
    IN  IF envelope = None THEN envs
        ELSE Put(envs, envelope[1].id, refresh_envelope_period(envelope[1], now))

EnfCheckResult(permitted, available, requested, limit, spent, committed, reason) ==
    [permitted |-> permitted, available |-> available, requested |-> requested,
     limit |-> limit, spent |-> spent, committed |-> committed, reason |-> reason]

\* a check that holds the amount it permits
enforcer_check_holding(envs, by_category, category, amount, now) ==
    LET refreshed == refresh_period(envs, by_category, category, now)
        envelope == get_envelope_by_category(refreshed, by_category, category)
        permitted == /\ envelope # None
                     /\ ~envelope[1].suspended
                     /\ amount <= available_balance(envelope[1])
    IN  IF envelope = None
        THEN [envelopes |-> envs,
              result |-> EnfCheckResult(FALSE, 0, amount, 0, 0, 0, "no_envelope")]
        ELSE [envelopes |-> IF permitted
                            THEN Put(refreshed, envelope[1].id,
                                     [envelope[1] EXCEPT !.committed = @ + amount])
                            ELSE refreshed,
              result |-> EnfCheckResult(permitted,
                             IF envelope[1].suspended THEN 0
                             ELSE available_balance(envelope[1]), amount,
                             envelope[1].limit, envelope[1].spent,
                             envelope[1].committed,
                             IF envelope[1].suspended THEN "suspended"
                             ELSE IF permitted THEN "within_budget"
                             ELSE "exceeds_budget")]

\* BudgetEnforcer.check: its result and the envelopes it leaves
enforcer_check(envs, by_category, category, amount, now) ==
    LET refreshed == refresh_period(envs, by_category, category, now)
        envelope == get_envelope_by_category(refreshed, by_category, category)
    IN  IF envelope = None
        THEN [envelopes |-> envs,
              result |-> EnfCheckResult(FALSE, 0, amount, 0, 0, 0, "no_envelope")]
        ELSE IF envelope[1].suspended
        THEN [envelopes |-> refreshed,
              result |-> EnfCheckResult(FALSE, 0, amount, envelope[1].limit,
                             envelope[1].spent, envelope[1].committed, "suspended")]
        ELSE [envelopes |-> refreshed,
              result |-> EnfCheckResult(amount <= available_balance(envelope[1]),
                             available_balance(envelope[1]), amount,
                             envelope[1].limit, envelope[1].spent,
                             envelope[1].committed,
                             IF amount <= available_balance(envelope[1])
                             THEN "within_budget" ELSE "exceeds_budget")]

-----------------------------------------------------------------------------
(* Calls on one BudgetEnforcer                                              *)

\* BudgetEnforcer.__init__
EnforcerInit ==
    /\ enf_envelopes = EmptyMap
    /\ enf_by_category = EmptyMap
    /\ enf_transactions = <<>>
    /\ enf_commits = EmptyMap
    /\ enf_now = 0
    /\ enf_next_id = 1
    /\ enf_calls = 0
    /\ enf_returned = NoReturn
    /\ enf_admitted = EmptyMap
    /\ enf_released = {}
    /\ enf_settled = {}

EnforcerCall ==
    /\ enf_calls < MaxEnfCalls
    /\ enf_calls' = enf_calls + 1
    /\ UNCHANGED enf_now
    /\ UNCHANGED nonEnforcerVars

\* the categories whose envelope a refresh has just reset
ResetBy(before, after) ==
    { before[id].category : id \in { i \in DOMAIN before :
          i \in DOMAIN after /\ after[i].period_start # before[i].period_start } }

\* BudgetEnforcer.create_envelope; id is the id of the EnvelopeConfig, if any
EnfCreateEnvelope(category, limit, period, id) ==
    LET envelope_id == IF id # None THEN id[1] ELSE Uuid(enf_next_id)
        envelope == SpendingEnvelope(envelope_id, category, limit, period, enf_now)
    IN  /\ EnforcerCall
        /\ limit > 0
        /\ enf_envelopes' = Put(enf_envelopes, envelope_id, envelope)
        /\ enf_by_category' = Put(enf_by_category, category, envelope_id)
        /\ enf_next_id' = IF id # None THEN enf_next_id ELSE enf_next_id + 1
        /\ enf_returned' = [kind |-> "create_envelope", category |-> category]
        /\ enf_settled' = IF category \in DOMAIN enf_by_category
                          THEN enf_settled \cup {category}
                          ELSE enf_settled
        /\ UNCHANGED <<enf_transactions, enf_commits, enf_admitted, enf_released>>

\* BudgetEnforcer.check
EnfCheck(category, amount) ==
    LET checked == enforcer_check(enf_envelopes, enf_by_category, category, amount,
                                  enf_now)
    IN  /\ EnforcerCall
        /\ enf_envelopes' = checked.envelopes
        /\ enf_returned' = [kind |-> "check", category |-> category,
                            amount |-> amount, result |-> checked.result]
        /\ enf_settled' = enf_settled \cup ResetBy(enf_envelopes, checked.envelopes)
        /\ UNCHANGED <<enf_by_category, enf_transactions, enf_commits, enf_next_id,
                       enf_admitted, enf_released>>

\* BudgetEnforcer.record
EnfRecord(category, amount) ==
    LET envelope == get_envelope_by_category(enf_envelopes, enf_by_category, category)
        refreshed == refresh_envelope_period(envelope[1], enf_now)
        transaction == [id |-> Uuid(enf_next_id), category |-> category,
                        amount |-> amount, timestamp |-> enf_now,
                        envelope_id |-> refreshed.id]
    IN  /\ EnforcerCall
        /\ IF envelope = None
           THEN \* _require_envelope raises KeyError
                /\ enf_returned' = [kind |-> "record", category |-> category,
                                    amount |-> amount, raised |-> "KeyError"]
                /\ UNCHANGED <<enf_envelopes, enf_transactions, enf_next_id,
                               enf_settled>>
           ELSE IF amount <= 0
           THEN \* build_transaction raises ValueError, after the refresh
                /\ enf_returned' = [kind |-> "record", category |-> category,
                                    amount |-> amount, raised |-> "ValueError"]
                /\ enf_envelopes' = Put(enf_envelopes, refreshed.id, refreshed)
                /\ enf_settled' = enf_settled \cup ResetBy(enf_envelopes, enf_envelopes')
                /\ UNCHANGED <<enf_transactions, enf_next_id>>
           ELSE /\ enf_returned' = [kind |-> "record", category |-> category,
                                    amount |-> amount, raised |-> "",
                                    transaction |-> transaction]
                /\ enf_envelopes' = Put(enf_envelopes, refreshed.id,
                                        [refreshed EXCEPT !.spent = @ + amount])
                /\ enf_transactions' = Append(enf_transactions, transaction)
                /\ enf_next_id' = enf_next_id + 1
                /\ enf_settled' = enf_settled \cup ResetBy(enf_envelopes, enf_envelopes')
        /\ UNCHANGED <<enf_by_category, enf_commits, enf_admitted, enf_released>>

\* BudgetEnforcer.commit
EnfCommit(category, amount) ==
    LET checked == enforcer_check(enf_envelopes, enf_by_category, category, amount,
                                  enf_now)
        commit_id == Uuid(enf_next_id)
        envelope == get_envelope_by_category(checked.envelopes, enf_by_category,
                                             category)[1]
        held == [envelope EXCEPT !.committed = @ + amount]
    IN  /\ EnforcerCall
        /\ enf_settled' = enf_settled \cup ResetBy(enf_envelopes, checked.envelopes)
        /\ IF ~checked.result.permitted
           THEN /\ enf_returned' = [kind |-> "commit", category |-> category,
                                    amount |-> amount, permitted |-> FALSE,
                                    commit_id |-> None,
                                    available |-> checked.result.available,
                                    reason |-> checked.result.reason]
                /\ enf_envelopes' = checked.envelopes
                /\ UNCHANGED <<enf_commits, enf_next_id, enf_admitted>>
           ELSE /\ enf_returned' = [kind |-> "commit", category |-> category,
                                    amount |-> amount, permitted |-> TRUE,
                                    commit_id |-> Some(commit_id),
                                    available |-> available_balance(held),
                                    reason |-> "within_budget"]
                /\ enf_envelopes' = Put(checked.envelopes, held.id, held)
                /\ enf_commits' = Put(enf_commits, commit_id, <<category, amount>>)
                /\ enf_next_id' = enf_next_id + 1
                /\ enf_admitted' = Put(enf_admitted, commit_id,
                                      <<category, amount, enf_now, held.id>>)
        /\ UNCHANGED <<enf_by_category, enf_transactions, enf_released>>

\* BudgetEnforcer.release
EnfRelease(commit_id) ==
    LET commit_entry == enf_commits[commit_id]
        envelope == get_envelope_by_category(enf_envelopes, enf_by_category,
                                             commit_entry[1])
    IN  /\ EnforcerCall
        /\ enf_returned' = [kind |-> "release", commit_id |-> commit_id]
        /\ enf_released' = IF commit_id \in DOMAIN enf_admitted
                           THEN enf_released \cup {commit_id} ELSE enf_released
        /\ IF commit_id \notin DOMAIN enf_commits
           THEN UNCHANGED <<enf_envelopes, enf_commits>>
           ELSE /\ enf_envelopes' =
                      IF envelope = None THEN enf_envelopes
                      ELSE Put(enf_envelopes, envelope[1].id,
                               [envelope[1] EXCEPT
                                   !.committed = Max(0, @ - commit_entry[2])])
                /\ enf_commits' = Drop(enf_commits, commit_id)
        /\ UNCHANGED <<enf_by_category, enf_transactions, enf_next_id, enf_admitted,
                       enf_settled>>

\* suspend and resume calls that leave the flag as it is
EnfSetSuspended_unchanged(kind, category, suspended) ==
    /\ EnforcerCall
    /\ enf_returned' = [kind |-> kind, category |-> category,
                        raised |-> IF category \in DOMAIN enf_by_category
                                   THEN "" ELSE "KeyError"]
    /\ UNCHANGED <<enf_envelopes, enf_by_category, enf_transactions, enf_commits,
                   enf_next_id, enf_admitted, enf_released, enf_settled>>

\* BudgetEnforcer.suspend_envelope (suspended = TRUE) and resume_envelope
\* (suspended = FALSE)
EnfSetSuspended(kind, category, suspended) ==
    LET envelope == get_envelope_by_category(enf_envelopes, enf_by_category, category)
    IN  /\ EnforcerCall
        /\ IF envelope = None
           THEN \* _require_envelope raises KeyError
                /\ enf_returned' = [kind |-> kind, category |-> category,
                                    raised |-> "KeyError"]
                /\ UNCHANGED enf_envelopes
           ELSE /\ enf_returned' = [kind |-> kind, category |-> category,
                                    raised |-> ""]
                /\ enf_envelopes' = Put(enf_envelopes, envelope[1].id,
                                        [envelope[1] EXCEPT !.suspended = suspended])
        /\ UNCHANGED <<enf_by_category, enf_transactions, enf_commits, enf_next_id,
                       enf_admitted, enf_released, enf_settled>>

\* BudgetEnforcer.suspend_envelope
EnfSuspend(category) == EnfSetSuspended("suspend_envelope", category, TRUE)

\* BudgetEnforcer.resume_envelope
EnfResume(category) == EnfSetSuspended("resume_envelope", category, FALSE)

\* BudgetEnforcer.utilization; the snapshot leaves out utilization_percent
EnfUtilization(category) ==
    LET envelope == get_envelope_by_category(enf_envelopes, enf_by_category, category)
        refreshed == refresh_envelope_period(envelope[1], enf_now)
    IN  /\ EnforcerCall
        /\ IF envelope = None
           THEN \* _require_envelope raises KeyError
                /\ enf_returned' = [kind |-> "utilization", category |-> category,
                                    raised |-> "KeyError"]
                /\ UNCHANGED <<enf_envelopes, enf_settled>>
           ELSE /\ enf_returned' =
                      [kind |-> "utilization", category |-> category, raised |-> "",
                       result |-> [category |-> refreshed.category,
                                   envelope_id |-> refreshed.id,
                                   limit |-> refreshed.limit,
                                   spent |-> refreshed.spent,
                                   committed |-> refreshed.committed,
                                   available |-> available_balance(refreshed),
                                   period |-> refreshed.period,
                                   period_start |-> refreshed.period_start,
                                   suspended |-> refreshed.suspended]]
                /\ enf_envelopes' = Put(enf_envelopes, refreshed.id, refreshed)
                /\ enf_settled' = enf_settled \cup ResetBy(enf_envelopes, enf_envelopes')
        /\ UNCHANGED <<enf_by_category, enf_transactions, enf_commits, enf_next_id,
                       enf_admitted, enf_released>>

\* BudgetEnforcer.list_envelopes
list_envelopes(envs) == { envs[id] : id \in DOMAIN envs }

\* half-hour steps of the clock in the runs that cross several periods
MaxWaitTicks == 4

\* the clock moves on by half an hour, over several periods
EnfWait ==
    /\ enf_now < MaxWaitTicks * TickSeconds
    /\ enf_now' = enf_now + TickSeconds
    /\ UNCHANGED <<enf_envelopes, enf_by_category, enf_transactions, enf_commits,
                   enf_next_id, enf_calls, enf_returned, enf_admitted, enf_released,
                   enf_settled>>
    /\ UNCHANGED nonEnforcerVars

\* the clock moves on by half an hour
EnfTick ==
    /\ enf_now < MaxEnfTicks * TickSeconds
    /\ enf_now' = enf_now + TickSeconds
    /\ UNCHANGED <<enf_envelopes, enf_by_category, enf_transactions, enf_commits,
                   enf_next_id, enf_calls, enf_returned, enf_admitted, enf_released,
                   enf_settled>>
    /\ UNCHANGED nonEnforcerVars

-----------------------------------------------------------------------------
(* Specifications                                                           *)

\* TrustLadder(): no decay, default scope "", history capped at 1000 entries
DefaultLadderConfig ==
    [decay |-> [enabled |-> FALSE, type |-> "none", ttl_ms |-> 0, step_interval_ms |-> 0],
     default_scope |-> "", max_history_per_scope |-> 1000]

Init ==
    /\ AuditInit
    /\ GovInitWith(DefaultConfig)
    /\ LadderInitWith(DefaultLadderConfig)
    /\ EnforcerInit
    /\ ChainedInit

\* a fresh engine under any of the configurations
InitEngine ==
    AuditInit /\ GovInit /\ LadderInitWith(DefaultLadderConfig) /\ EnforcerInit /\ ChainedInit

\* sequential logging on MemoryStorage, and inspection of a tampered copy
Next ==
    \/ \E d \in Decisions : Log(d)
    \/ Tick
    \/ \E i \in 1..MaxLogs, f \in RecordKeys :
          \E v \in TamperValues(f) : Tamper(i, f, v)

Spec == Init /\ [][Next]_vars

\* sequential logging on a backend whose append can raise
NextFaulty ==
    \/ \E d \in Decisions : Log(d)
    \/ \E d \in Decisions : LogStorageRaises(d)
    \/ Tick

SpecFaulty == Init /\ [][NextFaulty]_vars

\* concurrent log coroutines on the file backend
NextConcurrent ==
    \/ \E p \in Coroutines, d \in Decisions : LogBegin(p, d)
    \/ \E p \in Coroutines : StorageAppend(p)
    \/ Tick

SpecConcurrent == Init /\ [][NextConcurrent]_vars

\* calls on one governance engine, in any order, as days pass
NextEngine ==
    \/ \E a \in Agents, l \in AssignableLevels, s \in ScopeOpts : SetLevel(a, l, s)
    \/ \E c \in Categories, p \in PeriodsUsed : CreateBudget(c, 2, p)
    \/ \E c \in Categories, amount \in {1, 2} : RecordSpending(c, amount)
    \/ \E a \in Agents, d \in DataTypes, p \in PurposeOpts, e \in {None, Some(1)} :
          RecordConsent(a, d, p, e)
    \/ AdvanceDay
    \/ \E action \in GovActions : Evaluate(action)
    \/ \E action \in GovActions : EvaluateSync(action)

SpecEngine == InitEngine /\ [][NextEngine]_vars

\* a fresh ladder under any of the configurations
InitLadder ==
    AuditInit /\ GovInitWith(DefaultConfig) /\ LadderInit /\ EnforcerInit /\ ChainedInit

\* calls on one trust ladder, in any order, as the wall clock advances
NextLadder ==
    \/ \E a \in LadderAgents, l \in LadderLevels, s \in LadderScopeArgs : Assign(a, l, s)
    \/ \E a \in LadderAgents, s \in LadderScopeArgs : GetLevel(a, s)
    \/ \E a \in LadderAgents, s \in RevokeScopeArgs : Revoke(a, s)
    \/ ClockAdvance

SpecLadder == InitLadder /\ [][NextLadder]_vars

\* a fresh ladder without decay or with gradual decay in steps of 1 ms
InitRevoke ==
    /\ AuditInit
    /\ GovInitWith(DefaultConfig)
    /\ EnforcerInit
    /\ ChainedInit
    /\ \E c \in LadderConfigs :
          /\ c.decay.type \in {"none", "gradual"}
          /\ c.decay.step_interval_ms <= 1
          /\ LadderInitWith(c)

\* calls on one trust ladder that serves two agents
NextRevoke ==
    \/ \E a \in RevokeAgents, s \in LadderScopeArgs : Assign(a, 2, s)
    \/ \E a \in RevokeAgents, s \in LadderScopeArgs : GetLevel(a, s)
    \/ \E a \in RevokeAgents, s \in RevokeScopeArgs : Revoke(a, s)
    \/ ClockAdvance

SpecRevoke == InitRevoke /\ [][NextRevoke]_vars

\* decay of the assignments of one scope: DecayEngine.compute for any time,
\* and get_level under a wall clock that can also be set back
NextDecay ==
    \/ \E a \in LadderAgents, l \in LadderLevels : Assign(a, l, None)
    \/ \E a \in LadderAgents : GetLevel(a, None)
    \/ \E a \in LadderAgents : Revoke(a, None)
    \/ \E a \in LadderAgents, t \in 0..MaxMs : Compute(a, "", t)
    \/ ClockAdvance
    \/ ClockStepBack

SpecDecay == InitLadder /\ [][NextDecay]_vars

\* calls on one budget enforcer, in any order, as time passes
NextEnforcer ==
    \/ \E p \in EnfPeriods : EnfCreateEnvelope("llm", 3, p, None)
    \/ \E c \in EnfCategories, amount \in EnfAmounts : EnfCheck(c, amount)
    \/ \E c \in EnfCategories, amount \in EnfAmounts : EnfRecord(c, amount)
    \/ \E c \in EnfCategories, amount \in EnfAmounts : EnfCommit(c, amount)
    \/ \E id \in EnfCommitIds : EnfRelease(id)
    \/ EnfTick

SpecEnforcer == Init /\ [][NextEnforcer]_vars

\* calls that refresh the period of the envelope of "llm", over several periods
NextPeriod ==
    \/ \E p \in EnfPeriods : EnfCreateEnvelope("llm", 3, p, None)
    \/ EnfCheck("llm", 1)
    \/ \E amount \in {-1, 2} : EnfRecord("llm", amount)
    \/ EnfCommit("llm", 1)
    \/ EnfUtilization("llm")
    \/ EnfWait

SpecPeriod == Init /\ [][NextPeriod]_vars

\* calls on an envelope that is suspended and resumed
NextSuspend ==
    \/ \E p \in EnfPeriods : EnfCreateEnvelope("llm", 3, p, None)
    \/ \E c \in EnfCategories : EnfSuspend(c)
    \/ \E c \in EnfCategories : EnfResume(c)
    \/ \E amount \in EnfAmounts : EnfCheck("llm", amount)
    \/ EnfRecord("llm", 2)
    \/ \E amount \in EnfAmounts : EnfCommit("llm", amount)
    \/ EnfTick

SpecSuspend == Init /\ [][NextSuspend]_vars

\* consent recorded, left to expire and checked
NextConsent ==
    \/ \E a \in Agents, d \in DataTypes, p \in PurposeOpts, e \in {None, Some(1)} :
          RecordConsent(a, d, p, e)
    \/ \E a \in Agents, d \in DataTypes, p \in PurposeOpts : CheckConsent(a, d, p)
    \/ \E a \in Agents, d \in DataTypes, p \in PurposeOpts : RevokeConsent(a, d, p)
    \/ AdvanceDay

SpecConsent == InitEngine /\ [][NextConsent]_vars

\* calls on the budget manager of an engine, across a period boundary
NextBudget ==
    \/ \E c \in Categories, p \in PeriodsUsed : CreateBudget(c, 2, p)
    \/ \E c \in {"llm", "gpu"}, amount \in {-1, 1, 3} : BudgetRecordSpending(c, amount)
    \/ \E c \in {"llm", "gpu"}, amount \in {1, 3} : BudgetCheckBudget(c, amount)
    \/ AdvanceDay

SpecBudget == InitEngine /\ [][NextBudget]_vars


\* a storage backend used directly: appends of records stamped in any order,
\* and reads
NextStorage ==
    \/ \E d \in Decisions, t \in 0..MaxClock : StorageAppendRecord(d, t)
    \/ StorageAll
    \/ \E f \in AuditFilters : StorageQuery(f)

SpecStorage == Init /\ [][NextStorage]_vars

\* sequential logging on the file backend, and reads of a file with one
\* damaged line
NextFile ==
    \/ \E d \in Decisions : Log(d)
    \/ Tick
    \/ \E i \in 1..MaxLogs : StorageAllDropping(i)

SpecFile == Init /\ [][NextFile]_vars
\* sequential logging with restarts of the logger over the same backend
NextRestart ==
    \/ \E d \in Decisions : Log(d)
    \/ Tick
    \/ Restart

SpecRestart == Init /\ [][NextRestart]_vars

\* calls on the trust manager of one engine, in any order, as days pass
NextTrust ==
    \/ \E a \in Agents, l \in AssignableLevels \cup {L0_OBSERVER}, s \in ScopeOpts :
          TrustSetLevel(a, l, s)
    \/ \E a \in Agents, s \in ScopeOpts : TrustGetLevel(a, s)
    \/ \E a \in Agents, s \in ScopeOpts : TrustCheckLevel(a, 2, s)
    \/ \E a \in Agents, s \in ScopeOpts : TrustRequireLevel(a, 2, s)
    \/ \E a \in Agents, s \in ScopeOpts : TrustTouch(a, s)
    \/ \E a \in Agents, s \in ScopeOpts : TrustRemove(a, s)
    \/ AdvanceDay

SpecTrust == InitEngine /\ [][NextTrust]_vars

\* a HashChainedAuditLog of any size used directly
InitChained ==
    /\ AuditInit
    /\ GovInitWith(DefaultConfig)
    /\ LadderInitWith(DefaultLadderConfig)
    /\ EnforcerInit
    /\ \E max_size \in MaxSizes : ChainedInitWith(max_size)

NextChained ==
    \/ \E agent_id \in {"a1", "a2"}, decision \in {"allow", "deny"},
          details \in {None, Some([resource |-> "r"])} :
            ChainedAppend(agent_id, "tool_call", decision, details)
    \/ ChainedVerifyChain
    \/ ChainedTick

SpecChained == InitChained /\ [][NextChained]_vars

-----------------------------------------------------------------------------
(* Claims about the hash chain and the audit logger                         *)

\* record i (1-based) of rs is inconsistent with its predecessor or with its
\* own content: the two conditions a verifier can detect at that record
LinkBroken(rs, i) ==
    \/ rs[i]["previous_hash"] #
          (IF i = 1 THEN GENESIS_HASH ELSE rs[i - 1]["record_hash"])
    \/ rs[i]["record_hash"] # compute_hash(dump_pending(rs[i]), rs[i]["previous_hash"])

\* the 0-based index of the first record of rs at which a break is detectable
EarliestBreak(rs) ==
    (CHOOSE i \in 1..Len(rs) :
        LinkBroken(rs, i) /\ \A j \in 1..(i - 1) : ~LinkBroken(rs, j)) - 1

\* C1: after any number of log calls made one at a time on a fresh logger over
\* in-memory storage, verify over storage.all() is Success and its record_count
\* is the number of log calls (verify_chain agrees: no tamper detected).
C1_ChainIntegrity ==
    /\ verify(records) = Success(log_calls)
    /\ verify_chain(records).tamper_detected = FALSE
    /\ verify_chain(records).total_verified = log_calls

C1_Witness == log_calls >= 2 /\ Len(records) = log_calls

\* C2: when one field other than record_hash of the record at index i of a
\* sequentially logged corpus is changed, verify returns Failure, broken_at is
\* the earliest detectable break and is >= i; when only record_hash of record i
\* is changed, broken_at = i. verify_chain reports the same first broken link.
C2_TamperDetected ==
    tamper # None =>
        /\ ~verify(corpus).valid
        /\ \E i \in 1..Len(corpus) : LinkBroken(corpus, i)
        /\ verify(corpus).broken_at = EarliestBreak(corpus)
        /\ verify(corpus).broken_at >= tamper[1].index
        /\ tamper[1].field = "record_hash" =>
               verify(corpus).broken_at = tamper[1].index
        /\ verify_chain(corpus).tamper_detected
        /\ verify_chain(corpus).first_broken_link = Some(verify(corpus).broken_at)

C2_Witness ==
    /\ tamper # None
    /\ tamper[1].field = "reason"
    /\ tamper[1].index = 1
    /\ Len(corpus) >= 3

\* C3: the stored records satisfy the chain invariant: record 0 has
\* previous_hash = GENESIS_HASH, every later record has the previous record's
\* record_hash as its previous_hash, and HashChain.last_hash() is the
\* record_hash of the last stored record (GENESIS_HASH when nothing is stored).
C3_ChainInvariant ==
    /\ records # <<>> => records[1]["previous_hash"] = GENESIS_HASH
    /\ \A i \in 2..Len(records) :
          records[i]["previous_hash"] = records[i - 1]["record_hash"]
    /\ last_record_hash =
          (IF records = <<>> THEN GENESIS_HASH
           ELSE records[Len(records)]["record_hash"])

C3_Witness == Len(records) >= 2 /\ last_record_hash # GENESIS_HASH

\* C4: when the storage append raises during log, the chain is not mutated:
\* last_hash() is what it was before the failed call, nothing of the failed
\* call is stored, and the corpus of the successful calls verifies.
C4_FailedAppendLeavesChain ==
    /\ last_log = "raised" =>
          /\ last_record_hash = tip_before
          /\ records = stored_before
    /\ verify(records).valid

\* C5: whatever the interleaving of concurrent log coroutines, once they have
\* all returned the stored records are linked in their stored order and verify
\* over the stored corpus is Success.
C5_ConcurrentLogsLinear ==
    (\A p \in Coroutines : inflight[p] = None) =>
        /\ \A i \in 2..Len(records) :
              records[i]["previous_hash"] = records[i - 1]["record_hash"]
        /\ verify(records) = Success(Len(records))

-----------------------------------------------------------------------------
(* Claims about the governance engine                                       *)

\* whether the trust, budget and consent checks an action requests would pass
\* in the current state of the engine
TrustRequested(action) == action.required_trust_level # None

BudgetRequested(action) == action.budget_category # None

ConsentRequested(action) == action.data_type # None

TrustPasses(action) ==
    get_level(action.agent_id, action.scope) >= action.required_trust_level[1]

RequestedAmount(action) ==
    IF action.budget_amount = None THEN 0 ELSE action.budget_amount[1]

BudgetPasses(action) ==
    /\ action.budget_category[1] \in DOMAIN envelopes
    /\ RequestedAmount(action) <=
          envelopes[action.budget_category[1]].effective_limit
          - envelopes[action.budget_category[1]].spent

BudgetFails(action) ==
    /\ action.budget_category[1] \in DOMAIN envelopes
    /\ ~BudgetPasses(action)

ConsentPasses(action) ==
    \/ consent_find(action.agent_id, action.data_type[1], action.purpose) # None
    \/ ~cfg.default_deny

AllRequestedPass(action) ==
    /\ TrustRequested(action) => TrustPasses(action)
    /\ BudgetRequested(action) => BudgetPasses(action)
    /\ ConsentRequested(action) => ConsentPasses(action)

\* the position of a check in the pipeline
Rank(check) == CASE check = "trust" -> 1 [] check = "budget" -> 2 [] OTHER -> 3

\* C6: every evaluation (evaluate or evaluate_sync), whatever the action and
\* the engine state, increases the audit log's record count by exactly one and
\* returns a decision whose audit_record_id is the id of the new last record.
C6_EvaluateAppendsOne ==
    [][(returned'.kind # "none" /\ gov_calls' # gov_calls) =>
          /\ Len(audit_records') = Len(audit_records) + 1
          /\ returned'.kind = "decision"
          /\ returned'.audit_record_id =
                audit_records'[Len(audit_records')].record_id]_vars

\* C7: an evaluation calls the checks in the order trust, budget, consent and
\* stops at the first failure: when the trust check fails only the trust check
\* was called and the reasons are exactly the trust reason; when trust passes
\* (or is not requested) and the budget check fails, the consent check was not
\* called and the last reason is the budget reason.
C7_PipelineOrder ==
    /\ \A i, j \in 1..Len(performed) : i < j => Rank(performed[i]) < Rank(performed[j])
    /\ returned.kind = "raised" => \A i \in 1..Len(performed) : performed[i] # "consent"
    /\ returned.kind = "decision" =>
          /\ (TrustRequested(returned.action) /\ ~TrustPasses(returned.action)) =>
                /\ performed = <<"trust">>
                /\ returned.reasons = <<TrustStep(returned.action)>>
          /\ (/\ TrustRequested(returned.action) => TrustPasses(returned.action)
              /\ BudgetRequested(returned.action)
              /\ BudgetFails(returned.action)) =>
                /\ performed # <<>>
                /\ performed[Len(performed)] = "budget"
                /\ Len(returned.reasons) = Len(performed)
                /\ returned.reasons[Len(returned.reasons)] =
                      BudgetStep(returned.action).result

C7_Witness ==
    /\ returned.kind = "decision"
    /\ performed = <<"trust">>
    /\ BudgetRequested(returned.action)
    /\ BudgetFails(returned.action)

\* C8: an evaluation returns allowed = true with outcome "allow" exactly when
\* every check the action requests passes, and otherwise allowed = false with
\* outcome "deny" and a non-empty list of reasons; evaluate_sync returns what
\* evaluate returns.
C8_AllowedIffAllPass ==
    returned.kind # "none" =>
        /\ returned.kind = "decision"
        /\ returned.allowed <=> AllRequestedPass(returned.action)
        /\ returned.allowed => returned.outcome = "allow"
        /\ ~returned.allowed =>
              (returned.outcome = "deny" /\ returned.reasons # <<>>)

\* C9: an evaluation, allowed or denied, leaves every trust entry, every budget
\* envelope and every consent record as it was before the call.
C9_EvaluateReadOnly ==
    [][(returned'.kind # "none" /\ gov_calls' # gov_calls) =>
          UNCHANGED <<trust_store, envelopes, consent_records>>]_vars

C9_Witness ==
    /\ returned.kind = "decision"
    /\ \E i \in 1..Len(performed) : performed[i] = "budget"
    /\ "llm" \in DOMAIN envelopes
    /\ should_reset(envelopes["llm"].period, envelopes["llm"].last_reset)

-----------------------------------------------------------------------------
(* Claims about the trust ladder                                            *)

\* C10: for every assignment, every decay policy and every time now_ms, also
\* one earlier than assigned_at, the effective level computed by
\* DecayEngine.compute and returned by TrustLadder.get_level is at least
\* TRUST_LEVEL_MIN, at most 5, and not greater than the assigned level.
C10_EffectiveLevelBounded ==
    ladder_returned.kind \in {"compute", "get_level"} =>
        /\ ladder_returned.effective_level >= TRUST_LEVEL_MIN
        /\ ladder_returned.effective_level <= TRUST_LEVEL_MAX
        /\ ladder_returned.assignment # None =>
              ladder_returned.effective_level <=
                  ladder_returned.assignment[1].assigned_level

\* C11: decay is monotone in time: for one assignment under cliff or gradual
\* decay and two times t1 <= t2, the effective level computed at t1 is at
\* least the effective level computed at t2.  The level DecayEngine.compute
\* returned for now_ms is compared with its result at every other time.
C11_DecayMonotone ==
    ladder_returned.kind = "compute" =>
        \A t \in 0..MaxMs :
            LET other == compute(ladder_cfg.decay, ladder_returned.assignment[1],
                                 t).effective_level
            IN  /\ t <= ladder_returned.now_ms =>
                      other >= ladder_returned.effective_level
                /\ ladder_returned.now_ms <= t =>
                      ladder_returned.effective_level >= other

\* a decayed level was computed for a time after the assignment
C11_Witness ==
    /\ ladder_returned.kind = "compute"
    /\ ladder_cfg.decay.enabled
    /\ ladder_returned.now_ms > ladder_returned.assignment[1].assigned_at
    /\ ladder_returned.effective_level <
           ladder_returned.assignment[1].assigned_level


\* C12: assign is the only operation that can raise trust: over calls of
\* get_level, check and revoke with no assign in between, get_level for one
\* (agent, scope) never returns more than an earlier get_level did, and no
\* such call changes the assigned_level of a stored assignment.  Stated for
\* two successive calls: the second, when it is not assign, leaves every
\* remaining assignment as it was and, when both are get_level of the same
\* (agent, scope), returns no more than the first.
C12_OnlyAssignRaises ==
    [][(ladder_calls' # ladder_calls /\ ladder_returned'.kind # "assign") =>
          /\ \A k \in DOMAIN assignments' :
                k \in DOMAIN assignments /\ assignments'[k] = assignments[k]
          /\ ( /\ ladder_returned.kind = "get_level"
               /\ ladder_returned'.kind = "get_level"
               /\ ladder_returned'.agent_id = ladder_returned.agent_id
               /\ ladder_returned'.scope = ladder_returned.scope )
             => ladder_returned'.effective_level <= ladder_returned.effective_level
      ]_vars


\* C13: scopes are isolated: for an agent a and two distinct scopes s1 and s2
\* (s1 may be the global scope ""), assign(a, level, s1) and revoke(a, s1)
\* leave the level get_level(a, s2) returns, the assignment stored for
\* (a, s2) and the history of (a, s2) unchanged.
C13_ScopesIsolated ==
    [][( /\ ladder_calls' # ladder_calls
         /\ ladder_returned'.kind \in {"assign", "revoke"}
         /\ ladder_returned'.scope # None ) =>
          \A s2 \in LadderScopes \ {ladder_returned'.scope[1]} :
              /\ store_get(assignments', ladder_returned'.agent_id, s2) =
                     store_get(assignments, ladder_returned'.agent_id, s2)
              /\ get_history(history', ladder_returned'.agent_id, s2) =
                     get_history(history, ladder_returned'.agent_id, s2)
              /\ ladder_get_level(assignments', ladder_returned'.agent_id, s2,
                                  clock_ms') =
                     ladder_get_level(assignments, ladder_returned'.agent_id, s2,
                                      clock_ms)
      ]_vars

\* an assignment was made in the global scope while the agent holds one in
\* scope "s", which is still stored with its history
C13_Witness ==
    /\ ladder_returned.kind = "assign"
    /\ ladder_returned.scope = Some("")
    /\ store_get(assignments, ladder_returned.agent_id, "s") # None
    /\ get_history(history, ladder_returned.agent_id, "s") # <<>>
    /\ ladder_get_level(assignments, ladder_returned.agent_id, "s", clock_ms) > 0


\* the level of a stored assignment at the time of the last get_level call
LevelAtCall(key) ==
    compute(ladder_cfg.decay, assignments[key], ladder_returned.now_ms).effective_level

\* C14 as stated: get_level(agent, scope) resolves the scoped assignment,
\* then the agent's global assignment (scope ""), then TRUST_LEVEL_MIN: with
\* no assignment in the requested scope but a global one it returns the
\* decayed level of the global assignment, and TRUST_LEVEL_MIN only when
\* neither exists.
C14_GlobalFallback ==
    ladder_returned.kind = "get_level" =>
        LET scoped == build_scope_key(ladder_returned.agent_id, ladder_returned.scope)
            global == build_scope_key(ladder_returned.agent_id, "")
        IN  ladder_returned.effective_level =
                IF scoped \in DOMAIN assignments THEN LevelAtCall(scoped)
                ELSE IF global \in DOMAIN assignments THEN LevelAtCall(global)
                ELSE TRUST_LEVEL_MIN

\* C14 amended: get_level(agent, scope) resolves the assignment of the
\* requested scope only: it returns the decayed level of the assignment
\* stored for (agent, scope), and TRUST_LEVEL_MIN when there is none, also
\* when the agent has a global assignment.
C14_RequestedScopeOnly ==
    ladder_returned.kind = "get_level" =>
        LET scoped == build_scope_key(ladder_returned.agent_id, ladder_returned.scope)
        IN  ladder_returned.effective_level =
                IF scoped \in DOMAIN assignments THEN LevelAtCall(scoped)
                ELSE TRUST_LEVEL_MIN

\* get_level was asked for scope "s", where the agent has no assignment,
\* while its global assignment stands at a level above the minimum
C14_Witness ==
    /\ ladder_returned.kind = "get_level"
    /\ ladder_returned.scope = "s"
    /\ build_scope_key(ladder_returned.agent_id, "s") \notin DOMAIN assignments
    /\ build_scope_key(ladder_returned.agent_id, "") \in DOMAIN assignments
    /\ LevelAtCall(build_scope_key(ladder_returned.agent_id, "")) > TRUST_LEVEL_MIN
    /\ ladder_returned.effective_level = TRUST_LEVEL_MIN


\* C15: for every assigned level and every elapsed time
\* e = now - assigned_at >= 0, DecayEngine.compute returns the assigned level
\* with no decay; with Cliff(ttl) the assigned level when e < ttl and
\* TRUST_LEVEL_MIN when e >= ttl, never a level in between; with
\* Gradual(step) max(TRUST_LEVEL_MIN, assigned - floor(e / step)).
C15_DecayFormula ==
    LET assigned == ladder_returned.assignment[1].assigned_level
        e == ladder_returned.now_ms - ladder_returned.assignment[1].assigned_at
    IN  (ladder_returned.kind = "compute" /\ e >= 0) =>
            ladder_returned.effective_level =
                CASE ~ladder_cfg.decay.enabled -> assigned
                  [] ladder_cfg.decay.type = "cliff" ->
                         IF e < ladder_cfg.decay.ttl_ms THEN assigned
                         ELSE TRUST_LEVEL_MIN
                  [] OTHER ->
                         Max(TRUST_LEVEL_MIN,
                             assigned - (e \div ladder_cfg.decay.step_interval_ms))

\* compute was asked for the very moment a cliff assignment expires
C15_Witness ==
    /\ ladder_returned.kind = "compute"
    /\ ladder_cfg.decay.type = "cliff"
    /\ ladder_returned.now_ms - ladder_returned.assignment[1].assigned_at =
           ladder_cfg.decay.ttl_ms
    /\ ladder_returned.assignment[1].assigned_level > TRUST_LEVEL_MIN
    /\ ladder_returned.effective_level = TRUST_LEVEL_MIN


\* the newest n entries of a history, oldest first (all of them when n = 0)
LastN(entries, n) ==
    IF n > 0 /\ Len(entries) > n
    THEN SubSeq(entries, Len(entries) - n + 1, Len(entries))
    ELSE entries

\* history hist with one more entry for (agent_id, scope_name), of kind
\* change_kind and level new_level
Appended(before, after, agent_id, scope_name, change_kinds, new_level) ==
    LET old == get_history(before, agent_id, scope_name)
        new == get_history(after, agent_id, scope_name)
    IN  /\ new # <<>>
        /\ new[Len(new)].change_kind \in change_kinds
        /\ new[Len(new)].new_level = new_level
        /\ new[Len(new)].changed_at = clock_ms
        /\ new = LastN(Append(old, new[Len(new)]), ladder_cfg.max_history_per_scope)
        /\ \A k \in DOMAIN before :
              k # build_scope_key(agent_id, scope_name) =>
                  k \in DOMAIN after /\ after[k] = before[k]

\* C16: get_level appends a decay history entry (decay_cliff or decay_step)
\* exactly when the computed effective level is below the assigned level and
\* differs from the new_level of the last history entry of that
\* (agent, scope); a read that computes the level already recorded, or the
\* assigned level, or finds no assignment, appends nothing.
C16_DecayEntryOncePerLevel ==
    [][(ladder_calls' # ladder_calls /\ ladder_returned'.kind = "get_level") =>
          LET agent_id == ladder_returned'.agent_id
              scope_name == ladder_returned'.scope
              effective == ladder_returned'.effective_level
              entries == get_history(history, agent_id, scope_name)
          IN  IF /\ ladder_returned'.assignment # None
                 /\ effective < ladder_returned'.assignment[1].assigned_level
                 /\ (entries = <<>> \/ entries[Len(entries)].new_level # effective)
              THEN Appended(history, history', agent_id, scope_name,
                            {IF ladder_cfg.decay.type = "cliff" THEN "decay_cliff"
                             ELSE "decay_step"}, effective)
              ELSE history' = history
      ]_vars


\* the scopes a revoke call is about: the scope it names, or every scope in
\* which the agent holds an assignment
RevokedScopes(agent_id, scope) ==
    IF scope # None THEN {scope[1]}
    ELSE { s \in LadderScopes : \E a \in list_all(assignments) :
                                   a.agent_id = agent_id /\ a.scope = s }

\* C17: after revoke(agent, scope) the assignment of (agent, scope) is absent
\* from list_assignments, get_level(agent, scope) returns TRUST_LEVEL_MIN and
\* a revocation entry is the last entry of that history (appended by this
\* call when an assignment was stored); revoke(agent) with no scope does this
\* for every scope in which the agent has an assignment and leaves every
\* other agent's assignments and history unchanged.
C17_RevokeRemoves ==
    [][(ladder_calls' # ladder_calls /\ ladder_returned'.kind = "revoke") =>
          LET agent_id == ladder_returned'.agent_id
          IN  /\ \A s \in RevokedScopes(agent_id, ladder_returned'.scope) :
                    LET old == get_history(history, agent_id, s)
                        new == get_history(history', agent_id, s)
                    IN  /\ ~\E a \in list_all(assignments') :
                               a.agent_id = agent_id /\ a.scope = s
                        /\ ladder_get_level(assignments', agent_id, s, clock_ms') =
                               TRUST_LEVEL_MIN
                        /\ new # <<>> =>
                               /\ new[Len(new)].change_kind = "revocation"
                               /\ new[Len(new)].new_level = TRUST_LEVEL_MIN
                        /\ (\E a \in list_all(assignments) :
                               a.agent_id = agent_id /\ a.scope = s) =>
                               /\ new[Len(new)].changed_at = clock_ms
                               /\ new = LastN(Append(old, new[Len(new)]),
                                              ladder_cfg.max_history_per_scope)
              /\ \A other \in RevokeAgents \ {agent_id}, s \in LadderScopes :
                    /\ store_get(assignments', other, s) =
                           store_get(assignments, other, s)
                    /\ get_history(history', other, s) = get_history(history, other, s)
      ]_vars

\* revoke with no scope has removed the assignment of one agent, whose
\* history now ends with the revocation, while another agent holds one
C17_Witness ==
    /\ ladder_returned.kind = "revoke"
    /\ ladder_returned.scope = None
    /\ \E s \in LadderScopes :
          LET entries == get_history(history, ladder_returned.agent_id, s)
          IN  /\ Len(entries) >= 2
              /\ entries[Len(entries)].change_kind = "revocation"
              /\ store_get(assignments, ladder_returned.agent_id, s) = None
    /\ \E other \in RevokeAgents \ {ladder_returned.agent_id}, s \in LadderScopes :
          store_get(assignments, other, s) # None


\* C18: with max_history_per_scope = N > 0 the history of every
\* (agent, scope) has at most N entries, and they are the N most recently
\* appended entries of that (agent, scope), oldest first.  Stated call by
\* call: a history either stays as it is or becomes the newest N entries of
\* itself with one entry appended, and assign, which always appends, leaves
\* its 'manual' entry last.
C18_HistoryCapped ==
    [][ /\ \A k \in DOMAIN history' :
              LET old == IF k \in DOMAIN history THEN history[k] ELSE <<>>
                  new == history'[k]
              IN  /\ ladder_cfg.max_history_per_scope > 0 =>
                         Len(new) <= ladder_cfg.max_history_per_scope
                  /\ \/ new = old
                     \/ /\ new # <<>>
                        /\ new = LastN(Append(old, new[Len(new)]),
                                       ladder_cfg.max_history_per_scope)
        /\ (ladder_calls' # ladder_calls /\ ladder_returned'.kind = "assign") =>
              LET new == get_history(history', ladder_returned'.agent_id,
                                     ladder_returned'.scope[1])
                  old == get_history(history, ladder_returned'.agent_id,
                                     ladder_returned'.scope[1])
              IN  /\ new # <<>>
                  /\ new[Len(new)].change_kind = "manual"
                  /\ new[Len(new)].new_level = ladder_returned'.level
                  /\ new[Len(new)].changed_at = clock_ms
                  /\ new = LastN(Append(old, new[Len(new)]),
                                 ladder_cfg.max_history_per_scope)
      ]_vars

\* a history is full and its oldest entry is no longer the first assignment:
\* an entry has been evicted
C18_Witness ==
    \E k \in DOMAIN history :
        /\ ladder_cfg.max_history_per_scope > 0
        /\ Len(history[k]) = ladder_cfg.max_history_per_scope
        /\ \/ history[k][1].change_kind # "manual"
           \/ history[k][1].previous_level # None
        /\ ladder_returned.kind = "assign"


-----------------------------------------------------------------------------
(* Claims about the budget enforcer                                         *)

\* the sum of the amounts of the transactions recorded for a category
RECURSIVE RecordedTotal(_, _)
RecordedTotal(transactions, category) ==
    IF transactions = <<>> THEN 0
    ELSE (IF Head(transactions).category = category
          THEN Head(transactions).amount ELSE 0)
         + RecordedTotal(Tail(transactions), category)

\* the sum of the amounts of the commits with the given ids made on a category
RECURSIVE CommitTotal(_, _, _)
CommitTotal(made, ids, category) ==
    IF ids = {} THEN 0
    ELSE LET id == CHOOSE i \in ids : TRUE
         IN  (IF made[id][1] = category THEN made[id][2] ELSE 0)
             + CommitTotal(made, ids \ {id}, category)

\* C19: budget conservation: after any interleaving of record, commit and
\* release calls on one category, with no period boundary crossed and the
\* envelope not created again, the envelope's spent equals the sum of the
\* amounts of all recorded transactions and its committed equals the sum of
\* the amounts of the admitted commits minus the sum of the amounts of the
\* commits that were released, each counted once.
C19_BudgetConserved ==
    \A category \in DOMAIN enf_by_category \ enf_settled :
        LET envelope == enf_envelopes[enf_by_category[category]]
        IN  /\ envelope.spent = RecordedTotal(enf_transactions, category)
            /\ envelope.committed =
                   CommitTotal(enf_admitted, DOMAIN enf_admitted, category)
                   - CommitTotal(enf_admitted, enf_released, category)



\* C20: a record call fails with a no-envelope error when the category has no
\* envelope and fails when amount exceeds the available balance
\* max(0, limit - spent - committed) of the (refreshed) envelope; in both
\* cases spent and the transaction log are unchanged, and after the call
\* spent + committed does not exceed limit in any envelope.
C20_RecordRejects ==
    [][ (enf_calls' # enf_calls /\ enf_returned'.kind = "record") =>
          LET category == enf_returned'.category
              amount == enf_returned'.amount
              envelope == get_envelope_by_category(enf_envelopes, enf_by_category,
                                                   category)
              refreshed == refresh_envelope_period(envelope[1], enf_now)
          IN  /\ envelope = None =>
                    /\ enf_returned'.raised = "KeyError"
                    /\ enf_envelopes' = enf_envelopes
                    /\ enf_transactions' = enf_transactions
              /\ (envelope # None /\ amount > available_balance(refreshed)) =>
                    /\ enf_returned'.raised # ""
                    /\ enf_envelopes'[refreshed.id].spent = refreshed.spent
                    /\ enf_transactions' = enf_transactions
              /\ \A id \in DOMAIN enf_envelopes' :
                    enf_envelopes'[id].spent + enf_envelopes'[id].committed
                        <= enf_envelopes'[id].limit
      ]_vars


\* the period of the envelope has elapsed at time now
PeriodElapsed(envelope, now) ==
    /\ envelope.period # "total"
    /\ now - envelope.period_start >= PERIOD_SECONDS[envelope.period]

\* a call of check has just returned
CheckStep == enf_calls' # enf_calls /\ enf_returned'.kind = "check"

CommitStep == enf_calls' # enf_calls /\ enf_returned'.kind = "commit"

\* the amounts held by the pending commits of a category
PendingTotal(commits, category) == CommitTotal(commits, DOMAIN commits, category)

\* C22: commit is admitted exactly when check is permitted; an admitted commit
\* adds amount to committed, leaves spent as it is (both after the lazy
\* refresh) and stores a pending commit under a fresh id; a refused commit
\* returns no commit id and changes neither committed nor the pending
\* commits; and within a period every pending commit stays part of
\* committed, so that every check sees the available balance reduced by it
\* until it is released.
C22_CommitHolds ==
    [][ /\ CommitStep =>
             LET category == enf_returned'.category
                 amount == enf_returned'.amount
                 checked == enforcer_check(enf_envelopes, enf_by_category,
                                           category, amount, enf_now)
                 before == get_envelope_by_category(checked.envelopes,
                                                    enf_by_category, category)
                 after == get_envelope_by_category(enf_envelopes',
                                                   enf_by_category', category)
             IN  /\ enf_returned'.permitted = checked.result.permitted
                 /\ IF enf_returned'.permitted
                    THEN /\ after[1].committed = before[1].committed + amount
                         /\ after[1].spent = before[1].spent
                         /\ enf_returned'.commit_id # None
                         /\ enf_returned'.commit_id[1] \notin DOMAIN enf_admitted
                         /\ enf_commits' = Put(enf_commits, enf_returned'.commit_id[1],
                                               <<category, amount>>)
                    ELSE /\ enf_returned'.commit_id = None
                         /\ enf_commits' = enf_commits
                         /\ after = before
        /\ \A category \in DOMAIN enf_by_category' \ enf_settled' :
              enf_envelopes'[enf_by_category'[category]].committed
                  = PendingTotal(enf_commits', category)
      ]_vars


\* a call of release has just returned
ReleaseStep == enf_calls' # enf_calls /\ enf_returned'.kind = "release"

\* C23: release of an id that is not pending (unknown, or released before)
\* changes nothing; release of a pending commit lowers committed by the held
\* amount, not below 0, and removes the commit from the pending set; and a
\* release that directly follows its commit restores the available balance
\* to its value before the commit.
C23_ReleaseIdempotent ==
    [][ ReleaseStep =>
          LET id == enf_returned'.commit_id
          IN  IF id \notin DOMAIN enf_commits
              THEN /\ enf_envelopes' = enf_envelopes
                   /\ enf_commits' = enf_commits
                   /\ enf_transactions' = enf_transactions
                   /\ enf_by_category' = enf_by_category
              ELSE LET category == enf_commits[id][1]
                       amount == enf_commits[id][2]
                       before == enf_envelopes[enf_by_category[category]]
                       after == enf_envelopes'[enf_by_category[category]]
                   IN  /\ enf_commits' = Drop(enf_commits, id)
                       /\ after = [before EXCEPT
                                      !.committed = Max(0, before.committed - amount)]
                       /\ (enf_returned.kind = "commit"
                              /\ enf_returned.commit_id = Some(id)) =>
                             available_balance(after) =
                                 available_balance([before EXCEPT
                                     !.committed = before.committed - amount])
      ]_vars


\* a call that refreshes the period of the envelope of its category has
\* just returned
RefreshingStep ==
    /\ enf_calls' # enf_calls
    /\ enf_returned'.kind \in {"check", "record", "commit", "utilization"}
    /\ enf_returned'.category \in DOMAIN enf_by_category

\* C24: the first check, record, commit or utilization call made when
\* elapsed = now - period_start >= duration(period) on an envelope whose
\* period is not 'total' works on spent = 0 and committed = 0 and moves
\* period_start forward by exactly duration * floor(elapsed / duration);
\* while elapsed < duration, and for a 'total' envelope at any time, the
\* call resets nothing.
C24_LazyPeriodReset ==
    [][ RefreshingStep =>
          LET call == enf_returned'
              before == enf_envelopes[enf_by_category[call.category]]
              after == enf_envelopes'[enf_by_category[call.category]]
              duration == PERIOD_SECONDS[before.period]
              elapsed == enf_now - before.period_start
              recorded == IF call.kind = "record" /\ call.raised = ""
                          THEN call.amount ELSE 0
              reserved == IF call.kind = "commit" /\ call.permitted
                      THEN call.amount ELSE 0
          IN  IF before.period # "total" /\ elapsed >= duration
              THEN /\ after.period_start =
                          before.period_start + duration * (elapsed \div duration)
                   /\ after.spent = recorded
                   /\ after.committed = reserved
                   /\ call.kind \in {"check", "utilization"} =>
                          call.result.spent = 0 /\ call.result.committed = 0
              ELSE /\ after.period_start = before.period_start
                   /\ after.spent = before.spent + recorded
                   /\ after.committed = before.committed + reserved
      ]_vars

\* a utilization call has found the period over, one period and a half
\* after the start of the period in which a transaction was recorded
C24_Witness ==
    /\ enf_returned.kind = "utilization"
    /\ enf_returned.raised = ""
    /\ enf_returned.result.period_start > 0
    /\ enf_now > enf_returned.result.period_start
    /\ enf_returned.result.spent = 0
    /\ enf_transactions # <<>>


\* the pending commit was admitted on the envelope in a period of it that a
\* reset has ended since
AdmittedBeforeReset(commit_id, envelope) ==
    /\ commit_id \in DOMAIN enf_commits
    /\ enf_admitted[commit_id][4] = envelope.id
    /\ enf_admitted[commit_id][3] < envelope.period_start

\* C25: a commit admitted before a period reset of its envelope counts as
\* released by the reset: releasing it afterwards leaves the committed
\* amount of the new period as it is.
C25_ResetReleasesCommits ==
    [][ (ReleaseStep /\ enf_returned'.commit_id \in DOMAIN enf_commits) =>
          LET category == enf_commits[enf_returned'.commit_id][1]
              before == enf_envelopes[enf_by_category[category]]
              after == enf_envelopes'[enf_by_category[category]]
          IN  AdmittedBeforeReset(enf_returned'.commit_id, before) =>
                  after.committed = before.committed
      ]_vars


\* a call of suspend_envelope or resume_envelope has just returned normally
SuspendStep ==
    /\ enf_calls' # enf_calls
    /\ enf_returned'.kind \in {"suspend_envelope", "resume_envelope"}
    /\ enf_returned'.raised = ""

\* C26: on a suspended envelope every check returns permitted = FALSE with
\* reason 'suspended' whatever the balance and every commit is refused
\* without a pending commit; suspend_envelope sets and resume_envelope
\* clears the suspended flag and they change nothing else, in particular
\* neither spent nor committed; no other call changes the flag of an
\* envelope; and on an envelope that is not suspended the result of check
\* depends on the balance alone.
C26_SuspendedRefuses ==
    [][ /\ (CheckStep /\ enf_returned'.category \in DOMAIN enf_by_category) =>
             LET before == enf_envelopes[enf_by_category[enf_returned'.category]]
                 balance == available_balance(refresh_envelope_period(before, enf_now))
             IN  IF before.suspended
                 THEN /\ ~enf_returned'.result.permitted
                      /\ enf_returned'.result.reason = "suspended"
                 ELSE /\ enf_returned'.result.permitted
                             = (enf_returned'.amount <= balance)
                      /\ enf_returned'.result.reason \in
                             {"within_budget", "exceeds_budget"}
        /\ (CommitStep /\ enf_returned'.category \in DOMAIN enf_by_category) =>
             LET before == enf_envelopes[enf_by_category[enf_returned'.category]]
             IN  before.suspended =>
                     /\ ~enf_returned'.permitted
                     /\ enf_returned'.commit_id = None
                     /\ enf_returned'.reason = "suspended"
                     /\ enf_commits' = enf_commits
        /\ SuspendStep =>
             LET id == enf_by_category[enf_returned'.category]
             IN  /\ enf_envelopes' =
                        [enf_envelopes EXCEPT ![id].suspended =
                             (enf_returned'.kind = "suspend_envelope")]
                 /\ enf_transactions' = enf_transactions
                 /\ enf_commits' = enf_commits
                 /\ enf_by_category' = enf_by_category
        /\ ~SuspendStep =>
             \A id \in DOMAIN enf_envelopes :
                 enf_envelopes'[id].suspended = enf_envelopes[id].suspended
      ]_vars

\* a check was refused as suspended although the whole limit was available
C26_Witness ==
    /\ enf_returned.kind = "check"
    /\ enf_returned.result.reason = "suspended"
    /\ enf_returned.result.spent + enf_returned.result.committed
           + enf_returned.amount <= enf_returned.result.limit
    /\ enf_returned.amount > 0


\* C27: list_envelopes returns at most one envelope for each category; the
\* envelope create_envelope leaves for a category is the new one, with
\* spent = 0, committed = 0 and suspended = FALSE; and the release of a
\* commit made against an envelope that was replaced since changes nothing
\* of the envelope that replaced it.
C27_OneEnvelopePerCategory ==
    [][ /\ \A e1, e2 \in list_envelopes(enf_envelopes') :
              e1.category = e2.category => e1 = e2
        /\ (enf_calls' # enf_calls /\ enf_returned'.kind = "create_envelope") =>
              LET created == enf_envelopes'[enf_by_category'[enf_returned'.category]]
              IN  /\ created.spent = 0
                  /\ created.committed = 0
                  /\ ~created.suspended
                  /\ created.period_start = enf_now
                  /\ created.id \notin DOMAIN enf_envelopes
        /\ (ReleaseStep /\ enf_returned'.commit_id \in DOMAIN enf_commits) =>
              LET category == enf_commits[enf_returned'.commit_id][1]
                  id == enf_by_category[category]
              IN  enf_admitted[enf_returned'.commit_id][4] # id =>
                      enf_envelopes'[id] = enf_envelopes[id]
      ]_vars


\* C28: every envelope has spent >= 0 and committed >= 0 in every reachable
\* state, and a record or commit call with a non-positive amount is
\* rejected and leaves the envelopes (as the lazy refresh leaves them), the
\* transactions and the pending commits unchanged.
C28_NonNegative ==
    [][ /\ \A id \in DOMAIN enf_envelopes' :
              enf_envelopes'[id].spent >= 0 /\ enf_envelopes'[id].committed >= 0
        /\ (/\ enf_calls' # enf_calls
            /\ enf_returned'.kind \in {"record", "commit"}
            /\ enf_returned'.category \in DOMAIN enf_by_category
            /\ enf_returned'.amount <= 0) =>
              /\ IF enf_returned'.kind = "record"
                 THEN enf_returned'.raised # ""
                 ELSE ~enf_returned'.permitted
              /\ enf_envelopes' = refresh_period(enf_envelopes, enf_by_category,
                                                 enf_returned'.category, enf_now)
              /\ enf_transactions' = enf_transactions
              /\ enf_commits' = enf_commits
      ]_vars


-----------------------------------------------------------------------------
(* Claims about the budget manager and the consent manager                  *)

\* C29: with rollover_on_reset every period reset of an envelope sets
\* effective_limit = min(limit + max(0, limit - spent_prev), 2 * limit),
\* spent_prev being the amount spent in the period that ends, so that
\* limit <= effective_limit <= 2 * limit in every reachable state; without
\* rollover effective_limit equals limit in every reachable state.
C29_RolloverCapped ==
    [][ /\ \A category \in DOMAIN envelopes \cap DOMAIN envelopes' :
              LET before == envelopes[category]
                  after == envelopes'[category]
              IN  after.last_reset # before.last_reset =>
                      after.effective_limit =
                          IF cfg.rollover_on_reset
                          THEN Min(before.limit + Max(0, before.limit - before.spent),
                                   2 * before.limit)
                          ELSE before.limit
        /\ \A category \in DOMAIN envelopes' :
              LET envelope == envelopes'[category]
              IN  /\ envelope.limit <= envelope.effective_limit
                  /\ envelope.effective_limit <= 2 * envelope.limit
                  /\ ~cfg.rollover_on_reset =>
                         envelope.effective_limit = envelope.limit
      ]_vars

\* a reset has carried over the unspent half of the base limit
C29_Witness ==
    /\ cfg.rollover_on_reset
    /\ "llm" \in DOMAIN envelopes
    /\ envelopes["llm"].last_reset = 1
    /\ envelopes["llm"].limit = 2
    /\ envelopes["llm"].effective_limit = 3


\* the store holds a record under the key that has not expired
ValidConsent(key) ==
    /\ key \in DOMAIN consent_records
    /\ \/ consent_records[key].expires_at = None
       \/ day < consent_records[key].expires_at[1]

\* C30: check_consent(agent, data_type, purpose) grants with the record of
\* exactly that purpose when one exists that has not expired, else with the
\* blanket record (purpose None) of (agent, data_type) when that has not
\* expired; with no valid record it returns granted = FALSE when
\* default_deny is set and granted = TRUE otherwise; and it leaves the
\* consent store unchanged.
C30_ConsentLookup ==
    [][ (gov_calls' # gov_calls /\ returned'.kind = "check_consent") =>
          LET result == returned'.result
              exact == <<result.agent_id, result.data_type, result.purpose>>
              blanket == <<result.agent_id, result.data_type, None>>
          IN  /\ consent_records' = consent_records
              /\ IF ValidConsent(exact)
                 THEN result.granted /\ result.record = Some(consent_records[exact])
                 ELSE IF ValidConsent(blanket)
                 THEN result.granted /\ result.record = Some(consent_records[blanket])
                 ELSE result.record = None /\ result.granted = ~cfg.default_deny
      ]_vars

\* the blanket record granted a purpose whose own record had expired
C30_Witness ==
    /\ returned.kind = "check_consent"
    /\ returned.result.granted
    /\ returned.result.purpose = Some("support")
    /\ <<"a1", "user", Some("support")>> \in DOMAIN consent_records
    /\ returned.result.record # None
    /\ returned.result.record[1].purpose = None
    /\ cfg.default_deny


\* a call of record_spending on an existing category has just ended
RecordSpendingStep ==
    /\ gov_calls' # gov_calls
    /\ returned'.kind = "record_spending"
    /\ returned'.category \in DOMAIN envelopes

\* C31: without overdraft record_spending raises BudgetExceededError
\* whenever spent + amount would exceed the effective limit of the current
\* period; when it raises,
\* the envelope (spent, effective_limit, last_reset, transactions) is as
\* before the call; and spent <= effective_limit in every reachable state.
C31_ExceededLeavesState ==
    [][ /\ (RecordSpendingStep /\ ~cfg.allow_overdraft) =>
             LET before == envelopes[returned'.category]
                 after == envelopes'[returned'.category]
                 fresh == maybe_reset(envelopes, returned'.category)[returned'.category]
             IN  /\ fresh.spent + returned'.amount > fresh.effective_limit =>
                        returned'.raised = "BudgetExceededError"
                 /\ returned'.raised = "BudgetExceededError" => after = before
        /\ ~cfg.allow_overdraft =>
             \A category \in DOMAIN envelopes' :
                 envelopes'[category].spent <= envelopes'[category].effective_limit
      ]_vars


\* C36: the first check_budget on a category after its period boundary has
\* passed computes availability against the new period: it reports
\* spent = 0 and at least the base limit as available, and allows any
\* amount up to the base limit.
C36_CheckSeesNewPeriod ==
    [][ (/\ gov_calls' # gov_calls
         /\ returned'.kind = "check_budget"
         /\ returned'.category \in DOMAIN envelopes) =>
          LET before == envelopes[returned'.category]
              result == returned'.result[1]
          IN  should_reset(before.period, before.last_reset) =>
                  /\ result.spent = 0
                  /\ result.available >= before.limit
                  /\ returned'.amount <= before.limit => result.allowed
      ]_vars


-----------------------------------------------------------------------------
(* Claims about the audit storage backends and the governance audit log     *)

\* timestamps never decrease along the list
IsAscending(rs) ==
    \A i, j \in 1..Len(rs) : i < j => rs[i]["timestamp"] <= rs[j]["timestamp"]

\* C32: whatever the order of the timestamps of the appended records, the
\* list a caller receives from AuditStorage.all or AuditStorage.query is in
\* ascending timestamp order
C32_ReadsAscending == IsAscending(corpus)


\* the corpus in hand was read from a file with one line dropped
LineDropped == tamper # None /\ tamper[1].field = "line"

\* C33: when reading drops one record of a valid stored chain, whichever it
\* is, HashChain.verify over what was read returns a failure
C33_DroppedRecordDetected == LineDropped => ~verify(corpus).valid


\* C34: after any number of appends, more than max_size included,
\* verify_chain() returns (True, None) for the records held in memory
C34_HeldChainVerifies ==
    hcl_returned.kind = "verify_chain" => hcl_returned.result = <<TRUE, None>>

\* C35: a logger constructed over a backend that holds a valid chain continues
\* it: after any further log calls the whole stored corpus verifies
C35_RestartContinuesChain == verify(storage_all(records)).valid


\* the step is a call of revoke_consent
RevokeConsentStep == gov_calls' # gov_calls /\ returned'.kind = "revoke_consent"

\* C39: revoke_consent(agent, data_type, purpose) raises ConsentNotFoundError
\* and leaves the store unchanged when no record has exactly that key; when it
\* succeeds exactly that record is removed; and with default_deny a
\* check_consent(agent, data_type, purpose) made while the key is absent
\* returns granted = FALSE unless a non-expired blanket record of
\* (agent, data_type) remains
C39_RevokeConsent ==
    [][ /\ \A agent_id \in Agents, data_type \in DataTypes, purpose \in PurposeOpts :
              (/\ RevokeConsentStep
               /\ returned'.agent_id = agent_id
               /\ returned'.data_type = data_type
               /\ returned'.purpose = purpose) =>
                  LET key == <<agent_id, data_type, purpose>>
                      blanket == <<agent_id, data_type, None>>
                  IN  /\ (returned'.raised = "ConsentNotFoundError") <=>
                             (key \notin DOMAIN consent_records)
                      /\ returned'.raised # "" => consent_records' = consent_records
                      /\ returned'.raised = "" =>
                           /\ DOMAIN consent_records' = DOMAIN consent_records \ {key}
                           /\ \A k \in DOMAIN consent_records' :
                                  consent_records'[k] = consent_records[k]
                           /\ (cfg.default_deny /\ ~(ValidConsent(blanket))') =>
                                  ~(check_consent(agent_id, data_type, purpose).granted)'
        /\ (gov_calls' # gov_calls /\ returned'.kind = "check_consent") =>
              LET result == returned'.result
                  key == <<result.agent_id, result.data_type, result.purpose>>
                  blanket == <<result.agent_id, result.data_type, None>>
              IN  (/\ cfg.default_deny
                   /\ key \notin DOMAIN consent_records
                   /\ ~ValidConsent(blanket)) => ~result.granted
      ]_vars

\* a record of one purpose was revoked while the blanket record stays valid
C39_Witness ==
    /\ returned.kind = "revoke_consent"
    /\ returned.raised = ""
    /\ returned.purpose # None
    /\ cfg.default_deny
    /\ ValidConsent(<<returned.agent_id, returned.data_type, None>>)
    /\ check_consent(returned.agent_id, returned.data_type, returned.purpose).granted


-----------------------------------------------------------------------------
(* Claims about the trust manager                                           *)

\* C37: under any TrustConfig and from any prior state of the entry,
\* get_level(agent, scope) right after set_level(agent, L, scope) returns L,
\* and a set_level on a scope leaves the level of the global scope unchanged
C37_SetThenGet ==
    [][ \A agent_id \in Agents, scope \in ScopeOpts :
          (/\ gov_calls' # gov_calls
           /\ returned'.kind = "set_level"
           /\ returned'.agent_id = agent_id
           /\ returned'.scope = scope) =>
              /\ get_level(agent_id, scope)' = returned'.level
              /\ scope # None => get_level(agent_id, None)' = get_level(agent_id, None)
      ]_vars

\* the step is a call of set_level
SetLevelStep == gov_calls' # gov_calls /\ returned'.kind = "set_level"

\* C38: with no set_level in between, neither calls of get_level,
\* check_level, require_level, touch and remove nor the passage of time make
\* get_level(agent, scope) return a higher level than before
C38_OnlySetLevelRaises ==
    [][ ~SetLevelStep =>
          \A agent_id \in Agents, scope \in ScopeOpts :
              get_level(agent_id, scope)' <= get_level(agent_id, scope)
      ]_vars

====
